---- MODULE Spec2Model ----
(***************************************************************************)
(* A model of the CLI provider core of ChatDev:                            *)
(*   - CliProviderBase.call_model, the call orchestrator                   *)
(*     (runtime/node/agent/providers/cli_provider_base.py), with the       *)
(*     session registry it reads and writes;                               *)
(*   - CliProviderBase._run_streaming and CopilotCliProvider               *)
(*     ._run_streaming, the streaming supervisors, over a discrete clock.  *)
(*   - the session registries of the three provider classes and their     *)
(*     workspace files (save/load);                                        *)
(*   - _create_mcp_config with _resolve_env_dict, the tool-server config   *)
(*     builder, and _diff_workspace;                                       *)
(*   - GeminiCliProvider's settings-file variant of the config builder.    *)
(*   - LoopCounterNodeExecutor.execute on the loop-counter nodes.          *)
(*                                                                         *)
(* Strings whose contents the code inspects (the error text of a           *)
(* response) are sequences of one-character strings.  Session ids are      *)
(* opaque non-empty strings; None stands for Python's None.                *)
(***************************************************************************)
EXTENDS Integers, Sequences, FiniteSets, TLC

None == "None"

\* ------------------------------------------------------------------------
\* Input domains
\* ------------------------------------------------------------------------
NodeIds == {"n1"}
Sids == {"s1", "s2"}
OptSids == Sids \cup {None}

\* workspace_root: None, a usable directory, or a path mkdir cannot create
Workspaces == {None, "ws", "bad"}

\* the timeout and idle_timeout the caller passes
CallerTimeout == 600
CallerIdleTimeout == 300
\* the default of _run_streaming's idle_timeout parameter
DefaultIdleTimeout == 900

\* len(result) below this triggers the completion resume
ShortResultLimit == 1000
ResultLens == {0, 999, 1000}

\* ------------------------------------------------------------------------
\* Error texts.  "" (no error) is the empty sequence.
\* ------------------------------------------------------------------------
NoError == << >>
TIMEOUT == <<"t","i","m","e","o","u","t">>
STALL == <<"s","t","a","l","l">>
ErrInvalidSession == <<"i","n","v","a","l","i","d"," ","s","e","s","s","i","o","n">>
ErrCannotResume == <<"C","a","n","n","o","t"," ","R","E","S","U","M","E">>
ErrRateLimit == <<"r","a","t","e"," ","l","i","m","i","t">>
\* error texts a child's own result event can carry
ChildErrors == {NoError, ErrInvalidSession, ErrCannotResume, ErrRateLimit}

SESSION == <<"s","e","s","s","i","o","n">>
RESUME == <<"r","e","s","u","m","e">>

\* str.lower() on the characters the model uses
LowerChar(c) ==
    CASE c = "C" -> "c" [] c = "R" -> "r" [] c = "E" -> "e" [] c = "S" -> "s"
      [] c = "U" -> "u" [] c = "M" -> "m" [] OTHER -> c

Lower(s) == [i \in 1..Len(s) |-> LowerChar(s[i])]

\* Python's `sub in s`
Contains(sub, s) ==
    \E i \in 1..(Len(s) - Len(sub) + 1) : SubSeq(s, i, i + Len(sub) - 1) = sub


\* ------------------------------------------------------------------------
\* State of the call orchestrator
\* ------------------------------------------------------------------------
VARIABLES
    sessions,          \* cls._sessions of the provider: node id -> session id or None
    sessions_file,     \* {workspace}/SESSIONS_FILE: AbsentFile or the saved map
    pc,                \* position of call_model
    node_id,           \* config.node_id (None when the config has none)
    stream_callback,   \* TRUE iff a stream_callback was passed
    workspace_root,    \* config.workspace_root
    idle_timeout,      \* the idle_timeout the caller passed
    existing_session,
    is_continuation,
    mcp_config_path,   \* None or the path _create_mcp_config returned
    config_file,       \* TRUE iff the temp config file exists on disk
    raw_response,      \* the current raw response
    stderr_text,       \* TRUE iff the current stderr text is non-empty
    invocations,       \* the supervisor invocations of this call, in order
    cb_events,         \* what call_model itself passed to the callback
    content,           \* the content of the returned assistant message
    known_good         \* history: the session ids reported by runs that ended
                       \* without timeout or stall, or bound by set_session

\* the variables of one supervised run (_run_streaming)
VARIABLES
    variant,           \* "ndjson": the base class; "plain": the Copilot override
    timeout,           \* the timeout the supervisor runs under
    now,               \* the clock, 0 at Popen
    timer,             \* the overall timer: "armed", "fired" or "cancelled"
    idle_timer,        \* the current idle timer: "armed", "fired" or "cancelled"
    idle_deadline,     \* when the current idle timer is due
    timed_out,
    stalled,
    process,           \* the child: "running", "exited" or "killed"
    helper,            \* a descendant holding the pipe: "none", "running", "exited", "killed"
    stdout_closed,     \* TRUE iff the child closed its stdout itself
    pipe,              \* lines written and not yet read
    written,           \* number of lines the child wrote
    rpc,               \* the reader: "loop", "finally", "wait" or "done"
    accumulated_text,
    session_id,
    result_data,       \* NoResult or the raw result event
    pending_tool,      \* NoTool or the pending tool's dict
    tool_start_time,   \* NoTime or the clock value at tool_start
    emitted,           \* the (kind, payload) pairs passed to stream_callback
    kills,             \* the kill signals delivered: "group" or "process"
    response,          \* NoRawResponse or the returned raw response
    last_emit,         \* when the child last wrote a meaningful line (0: launch)
    cadence_ok,        \* the child has so far written a meaningful line within
                       \* every idle_timeout window of its own running time
    fired,             \* history: the timers that fired, in order
    lines,             \* the lines the child may write in this run
    tool_open,         \* history: NoTime, or the clock at the last tool_start line
                       \* read that no tool_end, text or result line has followed
    alt_tool           \* history: the pending tool and its stopwatch as the same
                       \* lines, read at the same times, leave them in a run with
                       \* the other choice of stream_callback

supOnlyVars == <<variant, timeout, now, timer, idle_timer, idle_deadline, timed_out,
                 stalled, process, helper, stdout_closed, pipe, written, rpc,
                 accumulated_text, session_id, result_data, pending_tool,
                 tool_start_time, emitted, kills, response, last_emit, cadence_ok,
                 fired, lines, tool_open, alt_tool>>

callOnlyVars == <<sessions, sessions_file, pc, node_id, workspace_root,
                  existing_session, is_continuation, mcp_config_path, config_file,
                  raw_response, stderr_text, invocations, cb_events, content, known_good>>

\* the session registries of the provider classes and their workspace files
VARIABLES
    cls_sessions,      \* _sessions of each class that owns one: node id -> session id
    ws_files,          \* {workspace}/SESSIONS_FILE of each provider class
    reg_raised,        \* TRUE iff the last registry operation raised
    round_trip,        \* history: the last save, the registry it saw, and whether a
                       \* clear_all_sessions or a load followed it
    cleared            \* history, per provider and node id: "cleared" once a
                       \* binding was removed by clear_session or
                       \* clear_all_sessions, "saved" once a save followed, "no"
                       \* again after a set_session

regOnlyVars == <<cls_sessions, ws_files, reg_raised, round_trip, cleared>>

\* one run of _create_mcp_config over a list of tooling specs
VARIABLES
    tooling,           \* tooling_configs
    os_environ,        \* os.environ: variable name -> value, None when unset
    cfg_workspace_root,\* the workspace_root argument
    reporter,          \* TRUE iff session_id is non-empty and the reporter script exists
    cfg_pc,            \* "start", "loop" or "done"
    cfg_i,             \* index of the next tooling spec
    servers,           \* the servers dict: a set of (name, entry) pairs
    seen_counter,      \* _seen_counter
    emitted_as,        \* history: per spec handled, the name it was stored under
    cfg_out            \* NoConfig or the document written to the temp file

cfgOnlyVars == <<tooling, os_environ, cfg_workspace_root, reporter, cfg_pc, cfg_i,
                 servers, seen_counter, emitted_as, cfg_out>>

\* one call of _diff_workspace
VARIABLES
    before,            \* the snapshot taken before the run: path -> (size, mtime)
    after,             \* the snapshot taken after it
    changes,           \* the list _diff_workspace returned
    diff_pc            \* "call" or "done"

diffOnlyVars == <<before, after, changes, diff_pc>>

\* the settings-file variant (GeminiCliProvider) around one call_model
VARIABLES
    gemini_dir,        \* {workspace}/.gemini: "absent", "empty" (nothing but the
                       \* settings file and its backup) or "other" (other files too)
    settings_json,     \* {workspace}/.gemini/settings.json: NoBytes or its bytes
    backup_file,       \* settings.json.chatdev_backup: NoBytes or its bytes
    gemini_settings_backup, \* self._gemini_settings_backup: None or the backup path
    temp_path,         \* TRUE iff the base class built a temp config file
    gem_config_path,   \* what _create_mcp_config returned: None or the settings path
    gem_pc,            \* "create", "prepare", "try", "finally", "done" or "raised"
    prior,             \* history: the directory and the settings file before the call
    dir_created        \* history: TRUE iff this call created the directory

gemOnlyVars == <<gemini_dir, settings_json, backup_file, gemini_settings_backup,
                 temp_path, gem_config_path, gem_pc, prior, dir_created>>

\* LoopCounterNodeExecutor.execute called on the loop-counter nodes of a graph
VARIABLES
    loop_cfg,          \* node id -> node.as_config(LoopCounterConfig)
    global_state,      \* context.global_state["loop_counter"]: node id -> count
    lc_out,            \* the last call: its node, its inputs, what it returned
    lc_calls           \* history: node id -> number of calls made so far

loopOnlyVars == <<loop_cfg, global_state, lc_out, lc_calls>>

runVars == <<callOnlyVars, supOnlyVars, stream_callback, idle_timeout>>
utilVars == <<regOnlyVars, cfgOnlyVars, diffOnlyVars, gemOnlyVars, loopOnlyVars>>
\* what the registry operations, the config builder, the workspace diff and
\* the settings-file variant leave alone
notRegVars == <<runVars, cfgOnlyVars, diffOnlyVars, gemOnlyVars, loopOnlyVars>>
notCfgVars == <<runVars, regOnlyVars, diffOnlyVars, gemOnlyVars, loopOnlyVars>>
notDiffVars == <<runVars, regOnlyVars, cfgOnlyVars, gemOnlyVars, loopOnlyVars>>
notGemVars == <<runVars, regOnlyVars, cfgOnlyVars, diffOnlyVars, loopOnlyVars>>
notLoopVars == <<runVars, regOnlyVars, cfgOnlyVars, diffOnlyVars, gemOnlyVars>>
vars == <<runVars, utilVars>>

\* ---- sessions files ---------------------------------------------------
EmptyMap == [n \in NodeIds |-> None]
\* a value of a JSON object that is not a string
NotAStr == "5"
\* what {workspace}/SESSIONS_FILE holds: nothing, or text that json.loads
\* rejects ("not_json"), parses to something that is no object ("scalar": a
\* number, null, a list of scalars), to an object with a value that is no
\* string ("bad_object"), or to a node id -> session id object ("object")
File(kind, data) == [kind |-> kind, data |-> data]
AbsentFile == File("absent", EmptyMap)
json_dumps(reg) == File("object", reg)

\* the provider classes, and the classes that can own a _sessions dict
Providers == {"ClaudeCodeProvider", "GeminiCliProvider", "CopilotCliProvider"}
Classes == Providers \cup {"CliProviderBase"}
NoTrip == [cls |-> None, phase |-> "none", saved |-> EmptyMap]
NothingCleared == [c \in Providers |-> [n \in NodeIds |-> "no"]]

\* the registries' variables while call_model or a supervised run is followed
RegIdle ==
    /\ cls_sessions = [c \in Classes |-> EmptyMap]
    /\ ws_files = [c \in Providers |-> AbsentFile]
    /\ reg_raised = FALSE
    /\ round_trip = NoTrip
    /\ cleared = NothingCleared

\* ---- tool-server entries ------------------------------------------------
\* a string is a sequence of tokens: literal text, or one $ENV{NAME} placeholder
Lit(text) == [ph |-> FALSE, s |-> text]
Ph(name) == [ph |-> TRUE, s |-> name]
\* a server name is its stem followed by the numbers of its "-2", "-3"
\* suffixes: "foo" is <<"foo">>, "foo-2" is <<"foo", 2>>
NoName == << >>
\* an entry of the servers dict; an absent key is the empty sequence
Entry(kind, command, args, env, dir, url, headers) ==
    [kind |-> kind, command |-> command, args |-> args, env |-> env, cwd |-> dir,
     url |-> url, headers |-> headers]
NoEntry == Entry("none", << >>, << >>, << >>, << >>, << >>, << >>)
NoConfig == [mcpServers |-> {}, written |-> FALSE]
EnvVars == {"A", "B", "WORKSPACE_ROOT"}

\* the config builder's variables while another part is followed
CfgIdle ==
    /\ tooling = << >>
    /\ os_environ = [v \in EnvVars |-> None]
    /\ cfg_workspace_root = None
    /\ reporter = FALSE
    /\ cfg_pc = "done"
    /\ cfg_i = 1
    /\ servers = {}
    /\ seen_counter = << >>
    /\ emitted_as = << >>
    /\ cfg_out = NoConfig

\* ---- workspace snapshots ----------------------------------------------
DiffPaths == {"a.py", "b.py"}
\* what a snapshot holds for a path: (st_size, st_mtime_ns), or no key
Info(size, mtime) == [size |-> size, mtime |-> mtime]
NoInfo == Info(-1, -1)

\* the diff's variables while another part is followed
DiffIdle ==
    /\ before = [p \in DiffPaths |-> NoInfo]
    /\ after = [p \in DiffPaths |-> NoInfo]
    /\ changes = << >>
    /\ diff_pc = "done"

\* ---- the settings file ---------------------------------------------------
\* the bytes of a file by what json.load makes of them: "object" (an object
\* without mcpServers), "servers" (an object whose mcpServers is an object),
\* "bad_servers" (an object whose mcpServers is no object), "scalar" (valid
\* JSON that is no object), "garbage" (not JSON); "merged": what the call
\* wrote; "truncated": what a failed write left
NoBytes == "absent"
PriorBytes == {"object", "servers", "bad_servers", "scalar", "garbage"}

\* the settings-file variant's variables while another part is followed
GemIdle ==
    /\ gemini_dir = "absent"
    /\ settings_json = NoBytes
    /\ backup_file = NoBytes
    /\ gemini_settings_backup = None
    /\ temp_path = FALSE
    /\ gem_config_path = None
    /\ gem_pc = "done"
    /\ prior = [dir |-> "absent", settings |-> NoBytes]
    /\ dir_created = FALSE

\* ---- loop counters -------------------------------------------------------
LoopNodes == {"a", "b"}
\* a message, and what a call leaves in lc_out
Message(role, text, metadata) ==
    [role |-> role, content |-> text, metadata |-> metadata]
NoMetadata == [count |-> 0, max |-> 0, reset_on_emit |-> FALSE]
\* as_config returned None: the node has no loop_counter configuration
NoLoopCounterConfig == [max_iterations |-> 0, reset_on_emit |-> FALSE, message |-> None]
NoCall == [node |-> None, inputs |-> << >>, messages |-> << >>, raised |-> FALSE]

\* the loop counters' variables while another part is followed
LoopIdle ==
    /\ loop_cfg = [n \in LoopNodes |-> NoLoopCounterConfig]
    /\ global_state = << >>
    /\ lc_out = NoCall
    /\ lc_calls = [n \in LoopNodes |-> 0]

UtilIdle == RegIdle /\ CfgIdle /\ DiffIdle /\ GemIdle /\ LoopIdle


NoResponse == [error |-> NoError, session_id |-> None, result_len |-> 0,
               returncode |-> FALSE, file_changes |-> FALSE, streamed |-> FALSE]

\* What _run_streaming can return: its three return statements.
TimeoutResponse == [NoResponse EXCEPT !.error = TIMEOUT]

StallResponses == {[NoResponse EXCEPT !.error = STALL, !.session_id = s] : s \in OptSids}

ParsedResponses ==
    {[NoResponse EXCEPT !.error = e, !.session_id = s, !.result_len = n,
                        !.returncode = TRUE] :
        e \in ChildErrors, s \in OptSids, n \in ResultLens}

SupervisorResponses == {TimeoutResponse} \cup StallResponses \cup ParsedResponses

\* one supervisor invocation, as call_model makes it
Invocation(builder, sid, prompt, t, it) ==
    [builder |-> builder, session |-> sid, prompt |-> prompt,
     timeout |-> t, idle_timeout |-> it]

\* the known-good ids after a run returned r
Reported(good, r) ==
    IF r.error \notin {TIMEOUT, STALL} /\ r.session_id # None
    THEN good \cup {r.session_id} ELSE good

\* ---- session registry -------------------------------------------------
get_session(reg, n) == reg[n]

set_session(reg, n, s) == [reg EXCEPT ![n] = s]

\* clear_session that pops nothing
clear_session_Noop(reg, n) == reg

clear_session(reg, n) == [reg EXCEPT ![n] = None]

\* the file after save_sessions_to_workspace: written only if the map is non-empty
save_sessions_to_workspace(reg, file) ==
    IF \E n \in NodeIds : reg[n] # None THEN json_dumps(reg) ELSE file

\* ---- config file ------------------------------------------------------
\* whether the temp file exists after _cleanup_mcp_config(path)
cleanup_mcp_config(path, exists) == IF path # None THEN FALSE ELSE exists

\* ---- response building ------------------------------------------------
\* content of _build_stream_response's message
build_stream_response(resp, stderr) ==
    IF resp.result_len = 0 /\ stderr THEN "[<binary> Error]: <stderr>" ELSE
    IF resp.result_len = 0 THEN "" ELSE "<result>"

\* the substring test without .lower()
MentionsSessionOrResume_CaseSensitive(msg) ==
    Contains(SESSION, msg) \/ Contains(RESUME, msg)

\* "session" in msg.lower() or "resume" in msg.lower()
MentionsSessionOrResume(msg) ==
    Contains(SESSION, Lower(msg)) \/ Contains(RESUME, Lower(msg))

\* a fresh retry on any error, whether or not a session was resumed
RetryCondition_AnyError(existing, resp) == resp.error # NoError

RetryCondition(existing, resp) ==
    /\ existing # None
    /\ resp.error # NoError
    /\ MentionsSessionOrResume(resp.error)

\* the timeout branch clearing whenever there is a node id
TimeoutClears_Always(n, existing) == n # None

\* line 270: the timeout branch clears the entry only for a new session
TimeoutClears(n, existing) == n # None /\ existing = None

\* stall recovery that ignores the session id the stalled run reported
StallSession_RegistryOnly(resp, reg, n) ==
    IF n # None THEN get_session(reg, n) ELSE None

\* the session the stall recovery resumes
StallSession(resp, reg, n) ==
    IF resp.session_id # None THEN resp.session_id
    ELSE IF n # None THEN get_session(reg, n) ELSE None

\* the truncation recheck without `and not is_continuation`
CompletionCondition_OnContinuation(resp, reg, n, continuation) ==
    LET resume_sid == IF resp.session_id # None THEN resp.session_id
                      ELSE IF n # None THEN get_session(reg, n) ELSE None
    IN  /\ resume_sid # None
        /\ resp.result_len < ShortResultLimit
        /\ resp.error = NoError

CompletionCondition(resp, reg, n, continuation) ==
    LET resume_sid == IF resp.session_id # None THEN resp.session_id
                      ELSE IF n # None THEN get_session(reg, n) ELSE None
    IN  /\ resume_sid # None
        /\ resp.result_len < ShortResultLimit
        /\ resp.error = NoError
        /\ ~continuation

\* ------------------------------------------------------------------------
\* call_model, step by step
\* ------------------------------------------------------------------------
CallLocalsInit ==
    /\ node_id = None
    /\ stream_callback = FALSE
    /\ workspace_root = None
    /\ idle_timeout = DefaultIdleTimeout
    /\ existing_session = None
    /\ is_continuation = FALSE
    /\ mcp_config_path = None
    /\ raw_response = NoResponse
    /\ stderr_text = FALSE
    /\ invocations = << >>
    /\ cb_events = << >>
    /\ content = None

\* the `finally:` of call_model, on return
Return(msg) ==
    /\ pc' = "returned"
    /\ content' = msg
    /\ config_file' = cleanup_mcp_config(mcp_config_path, config_file)

\* the `finally:` of call_model, on an exception inside the try block
RaiseInTry ==
    /\ pc' = "raised"
    /\ content' = None
    /\ config_file' = cleanup_mcp_config(mcp_config_path, config_file)

\* classmethods of the registry, called between model calls
SetSession ==
    /\ pc = "idle"
    /\ \E n \in NodeIds, s \in Sids :
          /\ sessions' = set_session(sessions, n, s)
          /\ known_good' = known_good \cup {s}
    /\ UNCHANGED <<sessions_file, pc, node_id, stream_callback, workspace_root,
                   idle_timeout, existing_session, is_continuation,
                   mcp_config_path, config_file, raw_response, stderr_text,
                   invocations, cb_events, content>>
    /\ UNCHANGED supOnlyVars
    /\ UNCHANGED utilVars

ClearSession ==
    /\ pc = "idle"
    /\ \E n \in NodeIds : sessions' = clear_session(sessions, n)
    /\ UNCHANGED <<sessions_file, pc, node_id, stream_callback, workspace_root,
                   idle_timeout, existing_session, is_continuation,
                   mcp_config_path, config_file, raw_response, stderr_text,
                   invocations, cb_events, content>>
    /\ UNCHANGED known_good
    /\ UNCHANGED supOnlyVars
    /\ UNCHANGED utilVars

\* lines 223-237: read the arguments and the registry, create the config file
CallModel ==
    /\ pc = "idle"
    /\ \E n \in NodeIds \cup {None}, cb \in BOOLEAN, ws \in Workspaces,
          created \in BOOLEAN :
          /\ node_id' = n
          /\ stream_callback' = cb
          /\ workspace_root' = ws
          /\ idle_timeout' = CallerIdleTimeout
          /\ existing_session' = IF n # None THEN get_session(sessions, n) ELSE None
          /\ is_continuation' = (existing_session' # None)
          /\ mcp_config_path' = IF created THEN "tmp" ELSE None
          /\ config_file' = created
    /\ pc' = "prepare"
    /\ UNCHANGED <<sessions, sessions_file, raw_response, stderr_text,
                   invocations, cb_events, content>>
    /\ UNCHANGED known_good
    /\ UNCHANGED supOnlyVars
    /\ UNCHANGED utilVars

\* lines 239-261: prompt, command, mkdir of the workspace, snapshot.
\* Path.mkdir raises on a workspace path it cannot create; this is outside `try`.
Prepare ==
    /\ pc = "prepare"
    /\ pc' = IF workspace_root = "bad" THEN "raised" ELSE "run"
    /\ UNCHANGED <<sessions, sessions_file, node_id, stream_callback, workspace_root,
                   idle_timeout, existing_session, is_continuation,
                   mcp_config_path, config_file, raw_response, stderr_text,
                   invocations, cb_events, content>>
    /\ UNCHANGED known_good
    /\ UNCHANGED supOnlyVars
    /\ UNCHANGED utilVars

\* lines 252-256: cwd is the workspace once mkdir succeeded
cwd == workspace_root

\* lines 264-267: the first supervisor run
FirstRun ==
    /\ pc = "run"
    /\ \E r \in SupervisorResponses, e \in BOOLEAN :
          /\ raw_response' = r
          /\ stderr_text' = e
          /\ known_good' = Reported(known_good, r)
    /\ invocations' = Append(invocations,
          Invocation("command", existing_session, "conversation",
                     CallerTimeout, idle_timeout))
    /\ pc' = "classify"
    /\ UNCHANGED <<sessions, sessions_file, node_id, stream_callback, workspace_root,
                   idle_timeout, existing_session, is_continuation,
                   mcp_config_path, config_file, cb_events, content>>
    /\ UNCHANGED supOnlyVars
    /\ UNCHANGED utilVars

\* subprocess.Popen raises (binary vanished, not executable): inside `try`
FirstRunRaises ==
    /\ pc = "run"
    /\ RaiseInTry
    /\ UNCHANGED <<sessions, sessions_file, node_id, stream_callback, workspace_root,
                   idle_timeout, existing_session, is_continuation,
                   mcp_config_path, raw_response, stderr_text, invocations, cb_events>>
    /\ UNCHANGED known_good
    /\ UNCHANGED supOnlyVars
    /\ UNCHANGED utilVars

\* lines 269-278
ReturnTimeout ==
    /\ pc = "classify"
    /\ raw_response.error = TIMEOUT
    /\ sessions' = IF TimeoutClears(node_id, existing_session)
                   THEN clear_session(sessions, node_id) ELSE sessions
    /\ Return("[Error: <binary> CLI timed out]")
    /\ UNCHANGED <<sessions_file, node_id, stream_callback, workspace_root,
                   idle_timeout, existing_session, is_continuation,
                   mcp_config_path, raw_response, stderr_text, invocations, cb_events>>
    /\ UNCHANGED known_good
    /\ UNCHANGED supOnlyVars
    /\ UNCHANGED utilVars

\* lines 280-283, 304-311
ReturnStallNoSession ==
    /\ pc = "classify"
    /\ raw_response.error = STALL
    /\ StallSession(raw_response, sessions, node_id) = None
    /\ Return("[Error: Agent stalled, no session to resume]")
    /\ UNCHANGED <<sessions, sessions_file, node_id, stream_callback, workspace_root,
                   idle_timeout, existing_session, is_continuation,
                   mcp_config_path, raw_response, stderr_text, invocations, cb_events>>
    /\ UNCHANGED known_good
    /\ UNCHANGED supOnlyVars
    /\ UNCHANGED utilVars

\* lines 280-293 with _resume_after_stall (589-611)
ResumeAfterStall ==
    /\ pc = "classify"
    /\ raw_response.error = STALL
    /\ LET stall_session == StallSession(raw_response, sessions, node_id) IN
          /\ stall_session # None
          /\ cb_events' = IF stream_callback
                          THEN Append(cb_events,
                                 [kind |-> "stall_detected",
                                  session_id |-> stall_session,
                                  idle_timeout |-> idle_timeout,
                                  before_invocation |-> Len(invocations) + 1])
                          ELSE cb_events
          /\ invocations' = Append(invocations,
                Invocation("resume", stall_session, "stall",
                           CallerTimeout, idle_timeout))
    /\ \E r \in SupervisorResponses, e \in BOOLEAN :
          /\ raw_response' = r
          /\ stderr_text' = e
          /\ known_good' = Reported(known_good, r)
    /\ pc' = "recovered"
    /\ UNCHANGED <<sessions, sessions_file, node_id, stream_callback, workspace_root,
                   idle_timeout, existing_session, is_continuation,
                   mcp_config_path, config_file, content>>
    /\ UNCHANGED supOnlyVars
    /\ UNCHANGED utilVars

\* lines 294-303
RecoveryFailed ==
    /\ pc = "recovered"
    /\ raw_response.error \in {TIMEOUT, STALL}
    /\ sessions' = IF node_id # None THEN clear_session(sessions, node_id) ELSE sessions
    /\ Return("[Error: Agent stalled and recovery failed]")
    /\ UNCHANGED <<sessions_file, node_id, stream_callback, workspace_root,
                   idle_timeout, existing_session, is_continuation,
                   mcp_config_path, raw_response, stderr_text, invocations, cb_events>>
    /\ UNCHANGED known_good
    /\ UNCHANGED supOnlyVars
    /\ UNCHANGED utilVars

\* line 313: neither early return was taken
TrackTokenUsage ==
    /\ \/ pc = "classify" /\ raw_response.error \notin {TIMEOUT, STALL}
       \/ pc = "recovered" /\ raw_response.error \notin {TIMEOUT, STALL}
    /\ pc' = "tracked"
    /\ UNCHANGED <<sessions, sessions_file, node_id, stream_callback, workspace_root,
                   idle_timeout, existing_session, is_continuation,
                   mcp_config_path, config_file, raw_response, stderr_text,
                   invocations, cb_events, content>>
    /\ UNCHANGED known_good
    /\ UNCHANGED supOnlyVars
    /\ UNCHANGED utilVars

\* lines 315-328
RetryFresh ==
    /\ pc = "tracked"
    /\ RetryCondition(existing_session, raw_response)
    /\ sessions' = IF node_id # None THEN clear_session(sessions, node_id) ELSE sessions
    /\ invocations' = Append(invocations,
          Invocation("command", None, "conversation",
                     CallerTimeout, idle_timeout))
    /\ \E r \in SupervisorResponses, e \in BOOLEAN :
          /\ raw_response' = r
          /\ stderr_text' = e
          /\ known_good' = Reported(known_good, r)
    /\ pc' = "retried"
    /\ UNCHANGED <<sessions_file, node_id, stream_callback, workspace_root,
                   idle_timeout, existing_session, is_continuation,
                   mcp_config_path, config_file, cb_events, content>>
    /\ UNCHANGED supOnlyVars
    /\ UNCHANGED utilVars

\* lines 329-336
RetryTimedOut ==
    /\ pc = "retried"
    /\ raw_response.error = TIMEOUT
    /\ Return("[Error: <binary> CLI timed out on retry]")
    /\ UNCHANGED <<sessions, sessions_file, node_id, stream_callback, workspace_root,
                   idle_timeout, existing_session, is_continuation,
                   mcp_config_path, raw_response, stderr_text, invocations, cb_events>>
    /\ UNCHANGED known_good
    /\ UNCHANGED supOnlyVars
    /\ UNCHANGED utilVars

\* lines 339-354: workspace diff, _streamed, save the session
PostProcess ==
    /\ \/ pc = "tracked" /\ ~RetryCondition(existing_session, raw_response)
       \/ pc = "retried" /\ raw_response.error # TIMEOUT
    /\ raw_response' = [raw_response EXCEPT
                          !.file_changes = IF cwd # None THEN TRUE ELSE @,
                          !.streamed = IF stream_callback THEN TRUE ELSE @]
    /\ IF raw_response.session_id # None /\ node_id # None
       THEN /\ sessions' = set_session(sessions, node_id, raw_response.session_id)
            /\ sessions_file' = IF cwd # None
                                THEN save_sessions_to_workspace(sessions', sessions_file)
                                ELSE sessions_file
       ELSE UNCHANGED <<sessions, sessions_file>>
    /\ pc' = "validate"
    /\ UNCHANGED <<node_id, stream_callback, workspace_root,
                   idle_timeout, existing_session, is_continuation,
                   mcp_config_path, config_file, stderr_text, invocations,
                   cb_events, content>>
    /\ UNCHANGED known_good
    /\ UNCHANGED supOnlyVars
    /\ UNCHANGED utilVars

\* lines 356-374 with _resume_for_completion (567-587)
ResumeForCompletion ==
    /\ pc = "validate"
    /\ CompletionCondition(raw_response, sessions, node_id, is_continuation)
    /\ LET resume_sid == IF raw_response.session_id # None THEN raw_response.session_id
                         ELSE get_session(sessions, node_id) IN
          invocations' = Append(invocations,
                Invocation("resume", resume_sid, "completion",
                           CallerTimeout, DefaultIdleTimeout))
    /\ \E r \in SupervisorResponses, e \in BOOLEAN :
          /\ raw_response' = r
          /\ stderr_text' = e
          /\ known_good' = Reported(known_good, r)
          /\ sessions' = IF r.session_id # None /\ node_id # None
                         THEN set_session(sessions, node_id, r.session_id)
                         ELSE sessions
          /\ Return(build_stream_response(r, e))
    /\ UNCHANGED <<sessions_file, node_id, stream_callback, workspace_root,
                   idle_timeout, existing_session, is_continuation,
                   mcp_config_path, cb_events>>
    /\ UNCHANGED supOnlyVars
    /\ UNCHANGED utilVars

\* line 374 when the completion resume does not apply
ReturnResponse ==
    /\ pc = "validate"
    /\ ~CompletionCondition(raw_response, sessions, node_id, is_continuation)
    /\ Return(build_stream_response(raw_response, stderr_text))
    /\ UNCHANGED <<sessions, sessions_file, node_id, stream_callback, workspace_root,
                   idle_timeout, existing_session, is_continuation,
                   mcp_config_path, raw_response, stderr_text, invocations, cb_events>>
    /\ UNCHANGED known_good
    /\ UNCHANGED supOnlyVars
    /\ UNCHANGED utilVars

\* the caller goes on; the next call starts from the registry this one left.
\* A temp file that outlived its call stays on disk, but no later call owns it.
NextCall ==
    /\ pc \in {"returned", "raised"}
    /\ pc' = "idle"
    /\ config_file' = FALSE
    /\ node_id' = None
    /\ stream_callback' = FALSE
    /\ workspace_root' = None
    /\ idle_timeout' = DefaultIdleTimeout
    /\ existing_session' = None
    /\ is_continuation' = FALSE
    /\ mcp_config_path' = None
    /\ raw_response' = NoResponse
    /\ stderr_text' = FALSE
    /\ invocations' = << >>
    /\ cb_events' = << >>
    /\ content' = None
    /\ UNCHANGED <<sessions, sessions_file>>
    /\ UNCHANGED known_good
    /\ UNCHANGED supOnlyVars
    /\ UNCHANGED utilVars

CallNext ==
    \/ SetSession \/ ClearSession \/ CallModel \/ Prepare
    \/ FirstRun \/ FirstRunRaises \/ ReturnTimeout \/ ReturnStallNoSession
    \/ ResumeAfterStall \/ RecoveryFailed \/ TrackTokenUsage
    \/ RetryFresh \/ RetryTimedOut \/ PostProcess
    \/ ResumeForCompletion \/ ReturnResponse \/ NextCall


\* ========================================================================
\* The streaming supervisors: CliProviderBase._run_streaming (NDJSON) and
\* CopilotCliProvider._run_streaming (plain text), over a discrete clock.
\* ========================================================================

\* how many lines the child writes in one run
MaxLines == 3
\* how many written lines the pipe holds unread
MaxPipe == 1

\* the (timeout, idle_timeout) pairs a run is started with
RunBudgets == {<<3, 2>>, <<5, 3>>}

\* ---- lines of the child, by what they normalize to ---------------------
\* type "garbage": a blank line or one that is not JSON; a tool_end line
\* carries the tool result as the child wrote it
\* a tool result: whether it is a str, and its length (of its str() otherwise)
ToolResult(is_str, len) == [is_str |-> is_str, len |-> len]
ToolResultLimit == 200
NoToolResult == ToolResult(TRUE, 0)

Ev(type) == [type |-> type, session_id |-> None, text |-> "", tool_id |-> None,
             tool_result |-> NoToolResult, result_text |-> "", sid_key |-> FALSE,
             result |-> "", error |-> NoError]

\* stand-ins for Python's None where the value is a dict or a number
NoResult == Ev("none")
NoTool == [name |-> None, id |-> None, result |-> NoToolResult, has_result |-> FALSE]
NoTime == -1
NoRawResponse == [error |-> NoError, session_id |-> None, result |-> << >>,
                  returncode |-> None, type |-> None]

\* no pending tool and no stopwatch
NoTrack == [pending_tool |-> NoTool, tool_start_time |-> NoTime]

InitEv(sid) == [Ev("init") EXCEPT !.session_id = sid]
TextEv(text) == [Ev("text") EXCEPT !.text = text]
ToolStartEv(id) == [Ev("tool_start") EXCEPT !.tool_id = id]
ToolEndEv(id, res) == [Ev("tool_end") EXCEPT !.tool_id = id, !.tool_result = res]
ErrorEv(text) == [Ev("error") EXCEPT !.text = text]
\* a result event: `sid` its session_id key (None: no such key), `res` its
\* result key, `text` what the provider takes as result_text
ResultEv(sid, res, text) ==
    [Ev("result") EXCEPT !.session_id = sid, !.sid_key = (sid # None),
                         !.result = res, !.result_text = text]

\* the lines the timed runs draw from
TimedLines ==
    {Ev("garbage"), InitEv("s1"), TextEv("a"), TextEv(""), ToolStartEv("t1"),
     ToolEndEv("t1", ToolResult(TRUE, ToolResultLimit + 1)),
     ToolEndEv("t1", ToolResult(FALSE, ToolResultLimit + 1)),
     ResultEv("s2", "done", "done"),
     ResultEv(None, "", "")}

\* the result the child reports for the tool with the given id
ResultOf(id) == ToolResult(TRUE, IF id = "t1" THEN 1 ELSE 2)

\* the lines of the runs with two tools: the tool_use of t1 and of t2, the
\* tool_result of each, and a text line
ToolLines ==
    {ToolStartEv("t1"), ToolStartEv("t2"), ToolEndEv("t1", ResultOf("t1")),
     ToolEndEv("t2", ResultOf("t2")), TextEv("a")}

\* a reader that takes every parsed line for activity
is_meaningful_EveryLine(ev) == TRUE

\* line 451: not (type == "text" and not text)
is_meaningful(ev) == ~(ev.type = "text" /\ ev.text = "")

\* lines 407-413 and 164/169: who a kill reaches
kill_tree_process(p) == IF p = "running" THEN "killed" ELSE p
kill_tree_helper(h) == IF h = "running" THEN "killed" ELSE h
process_kill_helper(h) == h

\* the kill a timer callback delivers, by supervisor
TimerKillScope(v) == IF v = "ndjson" THEN "group" ELSE "process"
\* the kill of the per-tool-call check (line 469)
ToolCheckKillScope == "process"

HelperAfterKill(scope, h) ==
    IF scope = "group" THEN kill_tree_helper(h) ELSE process_kill_helper(h)

\* the write end of the pipe is open somewhere
PipeOpen ==
    \/ process = "running" /\ ~stdout_closed
    \/ helper = "running"

\* `for line in process.stdout` has nothing more to yield
AtEOF == pipe = << >> /\ ~PipeOpen

\* call_model's variables while only one supervised run is followed
CallIdle ==
    /\ sessions = [n \in NodeIds |-> None]
    /\ sessions_file = AbsentFile
    /\ pc = "run"
    /\ node_id = None
    /\ workspace_root = None
    /\ existing_session = None
    /\ is_continuation = FALSE
    /\ mcp_config_path = None
    /\ config_file = FALSE
    /\ raw_response = NoResponse
    /\ stderr_text = FALSE
    /\ invocations = << >>
    /\ cb_events = << >>
    /\ content = None
    /\ known_good = {}

SupInit ==
    /\ variant \in {"ndjson", "plain"}
    /\ \E b \in RunBudgets : timeout = b[1] /\ idle_timeout = b[2]
    /\ stream_callback \in BOOLEAN
    /\ helper \in {"none", "running"}
    /\ now = 0
    /\ timer = "armed"
    /\ idle_timer = "armed"
    /\ idle_deadline = idle_timeout
    /\ timed_out = FALSE
    /\ stalled = FALSE
    /\ process = "running"
    /\ stdout_closed = FALSE
    /\ pipe = << >>
    /\ written = 0
    /\ rpc = "loop"
    /\ accumulated_text = << >>
    /\ session_id = None
    /\ result_data = NoResult
    /\ pending_tool = NoTool
    /\ tool_start_time = NoTime
    /\ emitted = << >>
    /\ kills = << >>
    /\ response = NoRawResponse
    /\ last_emit = 0
    /\ cadence_ok = TRUE
    /\ fired = << >>
    /\ lines = TimedLines
    /\ tool_open = NoTime
    /\ alt_tool = NoTrack
    /\ CallIdle
    /\ UtilIdle

\* ---- the child and its descendants ------------------------------------
\* a line the idle timer of the supervisor counts as activity
CountsAsActivity(v, ev) ==
    IF v = "plain" THEN TRUE ELSE ev.type # "garbage" /\ is_meaningful(ev)

ChildWrites ==
    /\ process = "running" /\ ~stdout_closed
    /\ rpc = "loop"
    /\ written < MaxLines
    /\ Len(pipe) < MaxPipe
    /\ \E ev \in lines :
          /\ pipe' = Append(pipe, ev)
          /\ last_emit' = IF CountsAsActivity(variant, ev) THEN now ELSE last_emit
    /\ written' = written + 1
    /\ UNCHANGED <<variant, timeout, now, timer, idle_timer, idle_deadline, timed_out,
                   stalled, process, helper, stdout_closed, rpc, accumulated_text,
                   session_id, result_data, pending_tool, tool_start_time, emitted,
                   kills, response, cadence_ok, stream_callback, idle_timeout>>
    /\ UNCHANGED fired
    /\ UNCHANGED <<lines, tool_open, alt_tool>>
    /\ UNCHANGED callOnlyVars
    /\ UNCHANGED utilVars

\* (the pipe matters only while the reader is in the loop)
ChildClosesStdout ==
    /\ process = "running" /\ ~stdout_closed
    /\ rpc = "loop"
    /\ stdout_closed' = TRUE
    /\ UNCHANGED <<variant, timeout, now, timer, idle_timer, idle_deadline, timed_out,
                   stalled, process, helper, pipe, written, rpc, accumulated_text,
                   session_id, result_data, pending_tool, tool_start_time, emitted,
                   kills, response, last_emit, cadence_ok, stream_callback,
                   idle_timeout>>
    /\ UNCHANGED fired
    /\ UNCHANGED <<lines, tool_open, alt_tool>>
    /\ UNCHANGED callOnlyVars
    /\ UNCHANGED utilVars

\* (the child is followed until the supervisor has returned)
ChildExits ==
    /\ process = "running"
    /\ rpc # "done"
    /\ process' = "exited"
    /\ UNCHANGED <<variant, timeout, now, timer, idle_timer, idle_deadline, timed_out,
                   stalled, helper, stdout_closed, pipe, written, rpc,
                   accumulated_text, session_id, result_data, pending_tool,
                   tool_start_time, emitted, kills, response, last_emit, cadence_ok,
                   stream_callback, idle_timeout>>
    /\ UNCHANGED fired
    /\ UNCHANGED <<lines, tool_open, alt_tool>>
    /\ UNCHANGED callOnlyVars
    /\ UNCHANGED utilVars

HelperExits ==
    /\ helper = "running"
    /\ rpc = "loop"
    /\ helper' = "exited"
    /\ UNCHANGED <<variant, timeout, now, timer, idle_timer, idle_deadline, timed_out,
                   stalled, process, stdout_closed, pipe, written, rpc,
                   accumulated_text, session_id, result_data, pending_tool,
                   tool_start_time, emitted, kills, response, last_emit, cadence_ok,
                   stream_callback, idle_timeout>>
    /\ UNCHANGED fired
    /\ UNCHANGED <<lines, tool_open, alt_tool>>
    /\ UNCHANGED callOnlyVars
    /\ UNCHANGED utilVars

\* ---- the clock ---------------------------------------------------------
\* Time passes while the reader is blocked in the read and no armed timer is
\* due.  Once no timer is armed the clock no longer matters.
Tick ==
    /\ rpc = "loop"
    /\ pipe = << >> /\ PipeOpen
    /\ timer = "armed" \/ idle_timer = "armed"
    /\ ~(timer = "armed" /\ now >= timeout)
    /\ ~(idle_timer = "armed" /\ now >= idle_deadline)
    /\ now' = now + 1
    /\ cadence_ok' = (cadence_ok /\
                      ~(process = "running" /\ now + 1 - last_emit >= idle_timeout))
    /\ UNCHANGED <<variant, timeout, timer, idle_timer, idle_deadline, timed_out,
                   stalled, process, helper, stdout_closed, pipe, written, rpc,
                   accumulated_text, session_id, result_data, pending_tool,
                   tool_start_time, emitted, kills, response, last_emit,
                   stream_callback, idle_timeout>>
    /\ UNCHANGED fired
    /\ UNCHANGED <<lines, tool_open, alt_tool>>
    /\ UNCHANGED callOnlyVars
    /\ UNCHANGED utilVars

\* ---- the timers --------------------------------------------------------
Kill(scope) ==
    /\ kills' = Append(kills, scope)
    /\ process' = kill_tree_process(process)
    /\ helper' = HelperAfterKill(scope, helper)

\* _kill (lines 415-418; Copilot 161-164)
OverallTimerFires ==
    /\ timer = "armed" /\ now >= timeout
    /\ timer' = "fired"
    /\ timed_out' = TRUE
    /\ Kill(TimerKillScope(variant))
    /\ UNCHANGED <<variant, timeout, now, idle_timer, idle_deadline, stalled,
                   stdout_closed, pipe, written, rpc, accumulated_text, session_id,
                   result_data, pending_tool, tool_start_time, emitted, response,
                   last_emit, cadence_ok, stream_callback, idle_timeout>>
    /\ fired' = Append(fired, "overall")
    /\ UNCHANGED <<lines, tool_open, alt_tool>>
    /\ UNCHANGED callOnlyVars
    /\ UNCHANGED utilVars

\* _kill_stall (lines 420-423; Copilot 166-169)
IdleTimerFires ==
    /\ idle_timer = "armed" /\ now >= idle_deadline
    /\ idle_timer' = "fired"
    /\ stalled' = TRUE
    /\ Kill(TimerKillScope(variant))
    /\ UNCHANGED <<variant, timeout, now, timer, idle_deadline, timed_out,
                   stdout_closed, pipe, written, rpc, accumulated_text, session_id,
                   result_data, pending_tool, tool_start_time, emitted, response,
                   last_emit, cadence_ok, stream_callback, idle_timeout>>
    /\ fired' = Append(fired, "idle")
    /\ UNCHANGED <<lines, tool_open, alt_tool>>
    /\ UNCHANGED callOnlyVars
    /\ UNCHANGED utilVars

\* ---- the reader --------------------------------------------------------
Min(a, b) == IF a <= b THEN a ELSE b

\* _normalize_event of the Claude and Gemini providers: a str tool result is
\* kept whole, anything else becomes str()[:200]
normalize_tool_result(r) ==
    IF r.is_str THEN r ELSE ToolResult(TRUE, Min(r.len, ToolResultLimit))

\* lines 501-505: a str is kept whole, anything else is str()[:200]
tool_end_result(r) ==
    IF r.is_str THEN r ELSE ToolResult(TRUE, Min(r.len, ToolResultLimit))

Emit(kind, text, tool) == [kind |-> kind, text |-> text, tool |-> tool]
\* what stream_callback receives, nothing without a callback
Callback(seq, kind, text, tool) ==
    IF stream_callback THEN Append(seq, Emit(kind, text, tool)) ELSE seq

\* line 460: `if tool_start_time and pending_tool`, lines 461-462
ToolCallOverdue ==
    /\ tool_start_time # NoTime
    /\ pending_tool # NoTool
    /\ now - tool_start_time > idle_timeout

Locals == [accumulated_text |-> accumulated_text, session_id |-> session_id,
           result_data |-> result_data, pending_tool |-> pending_tool,
           tool_start_time |-> tool_start_time, emitted |-> emitted]

\* `x or y` on session ids
Or(x, y) == IF x # None THEN x ELSE y

\* lines 472-473
OnInit(ev) == [Locals EXCEPT !.session_id = Or(ev.session_id, session_id)]

\* lines 475-484
OnText(ev) ==
    LET acc == IF ev.text # "" THEN Append(accumulated_text, <<ev.text>>)
               ELSE accumulated_text
        em1 == IF ev.text # "" THEN Callback(emitted, "text_delta", <<ev.text>>, NoTool)
               ELSE emitted
        close == pending_tool # NoTool /\ stream_callback
    IN  [Locals EXCEPT !.accumulated_text = acc,
                       !.emitted = IF close THEN Append(em1, Emit("tool_end", << >>, pending_tool))
                                   ELSE em1,
                       !.pending_tool = IF close THEN NoTool ELSE pending_tool,
                       !.tool_start_time = IF close THEN NoTime ELSE tool_start_time]

\* lines 486-496
OnToolStart(ev) ==
    LET em1 == IF pending_tool # NoTool
               THEN Callback(emitted, "tool_end", << >>, pending_tool) ELSE emitted
        tool == [name |-> "unknown", id |-> ev.tool_id, result |-> NoToolResult,
                 has_result |-> FALSE]
    IN  [Locals EXCEPT !.pending_tool = tool,
                       !.tool_start_time = now,
                       !.emitted = Callback(em1, "tool_start", << >>, tool)]

\* a tool_end handler that emits whether or not a tool is pending
OnToolEnd_NoPendingCheck(ev) ==
    LET tool == [pending_tool EXCEPT !.result = tool_end_result(normalize_tool_result(ev.tool_result)),
                                     !.has_result = TRUE]
    IN  [Locals EXCEPT !.tool_start_time = NoTime,
                       !.emitted = Callback(emitted, "tool_end", << >>, tool),
                       !.pending_tool = NoTool]

\* lines 498-507
OnToolEnd(ev) ==
    LET close == pending_tool # NoTool /\ stream_callback
        tool == [pending_tool EXCEPT !.result = tool_end_result(normalize_tool_result(ev.tool_result)),
                                     !.has_result = TRUE]
    IN  [Locals EXCEPT !.tool_start_time = NoTime,
                       !.emitted = IF close THEN Append(emitted, Emit("tool_end", << >>, tool))
                                   ELSE emitted,
                       !.pending_tool = IF close THEN NoTool ELSE pending_tool]

\* lines 509-517
OnResult(ev) ==
    LET close == pending_tool # NoTool /\ stream_callback
    IN  [Locals EXCEPT !.tool_start_time = NoTime,
                       !.emitted = IF close
                                   THEN Append(emitted, Emit("tool_end", << >>, pending_tool))
                                   ELSE emitted,
                       !.pending_tool = IF close THEN NoTool ELSE pending_tool,
                       !.result_data = ev,
                       !.session_id = Or(ev.session_id, session_id),
                       !.accumulated_text =
                            IF ev.result_text # ""
                            THEN Append(accumulated_text, <<ev.result_text>>)
                            ELSE accumulated_text]

\* lines 519-521
OnError(ev) ==
    [Locals EXCEPT !.accumulated_text =
                        IF ev.text # ""
                        THEN Append(accumulated_text, <<"[Error]: ", ev.text>>)
                        ELSE accumulated_text]

OnEvent(ev) ==
    CASE ev.type = "init" -> OnInit(ev)
      [] ev.type = "text" -> OnText(ev)
      [] ev.type = "tool_start" -> OnToolStart(ev)
      [] ev.type = "tool_end" -> OnToolEnd(ev)
      [] ev.type = "result" -> OnResult(ev)
      [] ev.type = "error" -> OnError(ev)
      [] OTHER -> Locals

SetLocals(l) ==
    /\ accumulated_text' = l.accumulated_text
    /\ session_id' = l.session_id
    /\ result_data' = l.result_data
    /\ pending_tool' = l.pending_tool
    /\ tool_start_time' = l.tool_start_time
    /\ emitted' = l.emitted

\* lines 481-484, 487-494, 499-507, 510-513: what the handlers do to
\* pending_tool and tool_start_time, with `cb` for `stream_callback`
TrackTool(cb, l, ev) ==
    LET close == l.pending_tool # NoTool /\ cb IN
    CASE ev.type = "text" ->
            IF close THEN NoTrack ELSE l
      [] ev.type = "tool_start" ->
            [pending_tool |-> [name |-> "unknown", id |-> ev.tool_id,
                               result |-> NoToolResult, has_result |-> FALSE],
             tool_start_time |-> now]
      [] ev.type \in {"tool_end", "result"} ->
            [pending_tool |-> IF close THEN NoTool ELSE l.pending_tool,
             tool_start_time |-> NoTime]
      [] OTHER -> l

\* the stopwatch of the last tool_start line that no tool_end, text or result
\* line has followed
open_after(open, ev) ==
    CASE ev.type = "tool_start" -> now
      [] ev.type \in {"tool_end", "result"} -> NoTime
      [] ev.type = "text" /\ ev.text # "" -> NoTime
      [] OTHER -> open

\* one pass of the body of `for line in process.stdout` (lines 439-521)
ReadLine ==
    /\ variant = "ndjson"
    /\ rpc = "loop"
    /\ pipe # << >>
    /\ pipe' = Tail(pipe)
    /\ LET ev == Head(pipe) IN
       IF ev.type = "garbage"
       THEN UNCHANGED <<idle_timer, idle_deadline, stalled, process, helper, kills, rpc,
                        accumulated_text, session_id, result_data, pending_tool,
                        tool_start_time, emitted, tool_open, alt_tool>>
       ELSE /\ IF is_meaningful(ev)
               THEN idle_timer' = "armed" /\ idle_deadline' = now + idle_timeout
               ELSE UNCHANGED <<idle_timer, idle_deadline>>
            /\ IF ToolCallOverdue
               THEN /\ stalled' = TRUE
                    /\ Kill(ToolCheckKillScope)
                    /\ rpc' = "finally"
                    /\ UNCHANGED <<accumulated_text, session_id, result_data,
                                   pending_tool, tool_start_time, emitted,
                                   tool_open, alt_tool>>
               ELSE /\ SetLocals(OnEvent(ev))
                    /\ tool_open' = open_after(tool_open, ev)
                    /\ alt_tool' = TrackTool(~stream_callback, alt_tool, ev)
                    /\ UNCHANGED <<stalled, process, helper, kills, rpc>>
    /\ UNCHANGED <<variant, timeout, now, timer, timed_out, stdout_closed, written,
                   response, last_emit, cadence_ok, stream_callback, idle_timeout>>
    /\ UNCHANGED fired
    /\ UNCHANGED lines
    /\ UNCHANGED callOnlyVars
    /\ UNCHANGED utilVars

\* one pass of the Copilot loop body (copilot_cli_provider.py lines 181-208).
\* An init line stands for a JSON line of type "system", a result line for a
\* JSON line of type "result", a garbage line for a blank line, and every
\* other line for plain text.
ReadLinePlain ==
    /\ variant = "plain"
    /\ rpc = "loop"
    /\ pipe # << >>
    /\ pipe' = Tail(pipe)
    /\ idle_timer' = "armed"
    /\ idle_deadline' = now + idle_timeout
    /\ LET ev == Head(pipe)
           line == IF ev.type = "text" THEN <<ev.text>> ELSE <<"json", ev.type>>
           blank == ev.type = "garbage" \/ (ev.type = "text" /\ ev.text = "")
       IN
       CASE ev.type = "init" ->
              /\ session_id' = Or(ev.session_id, session_id)
              /\ UNCHANGED <<accumulated_text, emitted, rpc>>
         [] ev.type = "result" ->
              /\ session_id' = Or(ev.session_id, session_id)
              /\ accumulated_text' = IF ev.result # ""
                                     THEN Append(accumulated_text, <<ev.result>>)
                                     ELSE accumulated_text
              /\ rpc' = "finally"
              /\ UNCHANGED emitted
         [] OTHER ->
              /\ accumulated_text' = IF blank THEN accumulated_text
                                     ELSE Append(accumulated_text, line)
              /\ emitted' = IF blank THEN emitted
                            ELSE Callback(emitted, "text_delta", line, NoTool)
              /\ UNCHANGED <<session_id, rpc>>
    /\ UNCHANGED <<variant, timeout, now, timer, timed_out, stalled, process, helper,
                   stdout_closed, written, result_data, pending_tool, tool_start_time,
                   kills, response, last_emit, cadence_ok, stream_callback,
                   idle_timeout>>
    /\ UNCHANGED fired
    /\ UNCHANGED <<lines, tool_open, alt_tool>>
    /\ UNCHANGED callOnlyVars
    /\ UNCHANGED utilVars

\* the for loop ends at end of file
LoopEnd ==
    /\ rpc = "loop"
    /\ AtEOF
    /\ rpc' = "finally"
    /\ UNCHANGED <<variant, timeout, now, timer, idle_timer, idle_deadline, timed_out,
                   stalled, process, helper, stdout_closed, pipe, written,
                   accumulated_text, session_id, result_data, pending_tool,
                   tool_start_time, emitted, kills, response, last_emit, cadence_ok,
                   stream_callback, idle_timeout>>
    /\ UNCHANGED fired
    /\ UNCHANGED <<lines, tool_open, alt_tool>>
    /\ UNCHANGED callOnlyVars
    /\ UNCHANGED utilVars

\* Timer.cancel(): a timer that already fired stays fired
cancel(t) == IF t = "armed" THEN "cancelled" ELSE t

\* lines 524-525: timer.cancel(); idle_timer.cancel()
CancelTimers ==
    /\ rpc = "finally"
    /\ timer' = cancel(timer)
    /\ idle_timer' = cancel(idle_timer)
    /\ rpc' = "wait"
    /\ UNCHANGED <<variant, timeout, now, idle_deadline, timed_out, stalled, process,
                   helper, stdout_closed, pipe, written, accumulated_text, session_id,
                   result_data, pending_tool, tool_start_time, emitted, kills,
                   response, last_emit, cadence_ok, stream_callback, idle_timeout>>
    /\ UNCHANGED fired
    /\ UNCHANGED <<lines, tool_open, alt_tool>>
    /\ UNCHANGED callOnlyVars
    /\ UNCHANGED utilVars

\* lines 544-561
parse_stream_result(rd, acc, sid) ==
    IF rd # NoResult
    THEN [error |-> rd.error,
          session_id |-> IF rd.sid_key THEN rd.session_id ELSE sid,
          result |-> IF rd.result = "" THEN acc ELSE << <<rd.result>> >>,
          returncode |-> None, type |-> rd.type]
    ELSE [error |-> NoError, session_id |-> sid, result |-> acc,
          returncode |-> None, type |-> "result"]

\* Copilot lines 227-232
plain_response(acc, sid) ==
    [error |-> NoError, session_id |-> sid, result |-> acc,
     returncode |-> None, type |-> "result"]

\* the return statements with the stalled test ahead of the timed_out test
RawResponse_StallFirst ==
    IF stalled
    THEN [NoRawResponse EXCEPT !.error = STALL, !.session_id = session_id]
    ELSE IF timed_out
    THEN [NoRawResponse EXCEPT !.error = TIMEOUT]
    ELSE [(IF variant = "ndjson"
           THEN parse_stream_result(result_data, accumulated_text, session_id)
           ELSE plain_response(accumulated_text, session_id))
          EXCEPT !.returncode = process]

\* lines 534-542 (Copilot 221-233)
RawResponse ==
    IF timed_out
    THEN [NoRawResponse EXCEPT !.error = TIMEOUT]
    ELSE IF stalled
    THEN [NoRawResponse EXCEPT !.error = STALL, !.session_id = session_id]
    ELSE [(IF variant = "ndjson"
           THEN parse_stream_result(result_data, accumulated_text, session_id)
           ELSE plain_response(accumulated_text, session_id))
          EXCEPT !.returncode = process]

\* line 526: process.wait() returns once the child has terminated; the
\* return statements follow
Reap ==
    /\ rpc = "wait"
    /\ process # "running"
    /\ rpc' = "done"
    /\ response' = RawResponse
    /\ UNCHANGED <<variant, timeout, now, timer, idle_timer, idle_deadline, timed_out,
                   stalled, process, helper, stdout_closed, pipe, written,
                   accumulated_text, session_id, result_data, pending_tool,
                   tool_start_time, emitted, kills, last_emit, cadence_ok,
                   stream_callback, idle_timeout>>
    /\ UNCHANGED fired
    /\ UNCHANGED <<lines, tool_open, alt_tool>>
    /\ UNCHANGED callOnlyVars
    /\ UNCHANGED utilVars

SupNext ==
    \/ ChildWrites \/ ChildClosesStdout \/ ChildExits \/ HelperExits
    \/ Tick \/ OverallTimerFires \/ IdleTimerFires
    \/ ReadLine \/ ReadLinePlain \/ LoopEnd \/ CancelTimers \/ Reap

\* ------------------------------------------------------------------------
\* The session registries: the classmethods of lines 102-138 called on the
\* three provider classes, over one workspace
\* ------------------------------------------------------------------------
\* the session ids the registry operations bind
RegSids == {"s1"}

\* the sessions files a workspace can hold before the program touches it
FileContents ==
    {AbsentFile, File("not_json", EmptyMap), File("scalar", EmptyMap),
     File("bad_object", [n \in NodeIds |-> NotAStr])}
    \cup {json_dumps(m) : m \in [NodeIds -> RegSids \cup {None}]}

\* a class attribute lookup of _sessions without __init_subclass__: every
\* provider finds the dict of the base class
storage_Shared(cls) == "CliProviderBase"

\* lines 92-96: __init_subclass__ binds a fresh _sessions dict in every
\* subclass, so cls._sessions is the class's own
storage(cls) == cls

\* lines 117-120
clear_all_sessions(reg) == EmptyMap

\* dict.update with the keys of a parsed object
update(reg, data) == [n \in NodeIds |-> IF data[n] # None THEN data[n] ELSE reg[n]]

\* lines 129-138: the registry after load_sessions_from_workspace and whether
\* an exception left the method.  A missing file is skipped; JSONDecodeError
\* and OSError are caught; the TypeError or ValueError of dict.update on a
\* parsed value that is no mapping is not.
load_sessions_from_workspace(reg, file) ==
    CASE file.kind = "absent" -> [sessions |-> reg, raised |-> FALSE]
      [] file.kind = "not_json" -> [sessions |-> reg, raised |-> FALSE]
      [] file.kind = "scalar" -> [sessions |-> reg, raised |-> TRUE]
      [] OTHER -> [sessions |-> update(reg, file.data), raised |-> FALSE]

\* the history of cls after the bindings of the nodes in `ns` were removed
Removed(cls, ns) ==
    [n \in NodeIds |->
        IF n \in ns /\ cls_sessions[storage(cls)][n] # None THEN "cleared"
        ELSE cleared[cls][n]]

\* the history after set_session or clear_session on cls
TripBroken(cls) == IF round_trip.cls = cls THEN NoTrip ELSE round_trip

\* cls.set_session(n, s)
SetSessionOn(cls) ==
    /\ \E n \in NodeIds, s \in RegSids :
          /\ cls_sessions' = [cls_sessions EXCEPT
                               ![storage(cls)] = set_session(cls_sessions[storage(cls)], n, s)]
          /\ cleared' = [cleared EXCEPT ![cls][n] = "no"]
    /\ reg_raised' = FALSE
    /\ round_trip' = TripBroken(cls)
    /\ UNCHANGED ws_files
    /\ UNCHANGED notRegVars

\* cls.clear_session(n)
ClearSessionOn(cls) ==
    /\ \E n \in NodeIds :
          /\ cls_sessions' = [cls_sessions EXCEPT
                               ![storage(cls)] = clear_session(cls_sessions[storage(cls)], n)]
          /\ cleared' = [cleared EXCEPT ![cls] = Removed(cls, {n})]
    /\ reg_raised' = FALSE
    /\ round_trip' = TripBroken(cls)
    /\ UNCHANGED ws_files
    /\ UNCHANGED notRegVars

\* cls.clear_all_sessions()
ClearAllSessionsOn(cls) ==
    /\ cls_sessions' = [cls_sessions EXCEPT
                          ![storage(cls)] = clear_all_sessions(cls_sessions[storage(cls)])]
    /\ cleared' = [cleared EXCEPT ![cls] = Removed(cls, NodeIds)]
    /\ reg_raised' = FALSE
    /\ round_trip' = IF round_trip.cls = cls
                      THEN IF round_trip.phase \in {"saved", "cleared"}
                           THEN [round_trip EXCEPT !.phase = "cleared"] ELSE NoTrip
                      ELSE round_trip
    /\ UNCHANGED ws_files
    /\ UNCHANGED notRegVars

\* cls.save_sessions_to_workspace(workspace)
SaveSessionsOn(cls) ==
    /\ ws_files' = [ws_files EXCEPT
                      ![cls] = save_sessions_to_workspace(cls_sessions[storage(cls)],
                                                          ws_files[cls])]
    /\ reg_raised' = FALSE
    /\ round_trip' = [cls |-> cls, phase |-> "saved", saved |-> cls_sessions[storage(cls)]]
    /\ cleared' = [cleared EXCEPT ![cls] =
                      [n \in NodeIds |-> IF cleared[cls][n] = "cleared" THEN "saved"
                                         ELSE cleared[cls][n]]]
    /\ UNCHANGED cls_sessions
    /\ UNCHANGED notRegVars

\* cls.load_sessions_from_workspace(workspace)
LoadSessionsOn(cls) ==
    /\ LET r == load_sessions_from_workspace(cls_sessions[storage(cls)], ws_files[cls])
       IN  /\ cls_sessions' = [cls_sessions EXCEPT ![storage(cls)] = r.sessions]
           /\ reg_raised' = r.raised
    /\ round_trip' = IF round_trip.cls = cls
                      THEN IF round_trip.phase \in {"saved", "cleared"}
                           THEN [round_trip EXCEPT !.phase = "loaded"] ELSE NoTrip
                      ELSE round_trip
    /\ UNCHANGED <<ws_files, cleared>>
    /\ UNCHANGED notRegVars

RegSetSession == \E cls \in Providers : SetSessionOn(cls)
RegClearSession == \E cls \in Providers : ClearSessionOn(cls)
RegClearAllSessions == \E cls \in Providers : ClearAllSessionsOn(cls)
RegSaveSessions == \E cls \in Providers : SaveSessionsOn(cls)
RegLoadSessions == \E cls \in Providers : LoadSessionsOn(cls)

RegNext ==
    \/ RegSetSession \/ RegClearSession \/ RegClearAllSessions
    \/ RegSaveSessions \/ RegLoadSessions

\* ------------------------------------------------------------------------
\* The tool-server config builder: _create_mcp_config, one tooling spec per
\* step (cli_provider_base.py lines 771-900), and the helpers it calls
\* ------------------------------------------------------------------------
MaxTooling == 3

ReporterName == <<"chatdev-reporter">>
\* lines 794-803: fixed strings, no placeholder
ReporterEntry ==
    Entry("local", <<Lit("python")>>, << <<Lit("chatdev_reporter.py")>> >>,
          << <<Lit("http://127.0.0.1:port")>>, <<Lit("session")>>, <<Lit("node")>> >>,
          << >>, << >>, << >>)

\* an argument or a command: its text, whether _infer_mcp_server_name passes
\* over it (a flag, a path, or a word with "/" and no "@"), and the name that
\* rsplit, removesuffix and replace("_", "-") make of it
Word(text, skip, stem) == [text |-> text, skip |-> skip, stem |-> stem]

\* tooling specs: ToolingConfig records with their McpLocalConfig or
\* McpRemoteConfig
LocalSpec(prefix, command, args, env, dir) ==
    [type |-> "mcp_local", prefix |-> prefix, command |-> command, args |-> args,
     env |-> env, cwd |-> dir, host |-> << >>, server |-> << >>, headers |-> << >>]
RemoteSpec(prefix, host, server, headers) ==
    [type |-> "mcp_remote", prefix |-> prefix, command |-> Word(<< >>, TRUE, NoName),
     args |-> << >>, env |-> << >>, cwd |-> << >>, host |-> host, server |-> server,
     headers |-> headers]
OtherSpec == [LocalSpec(NoName, Word(<< >>, TRUE, NoName), << >>, << >>, << >>)
                EXCEPT !.type = "function"]

\* the specs the runs draw from: every string field carries a placeholder in
\* one of them; the names repeat, are inferred, and already end in -2
ToolingSpecs ==
    {LocalSpec(<<"foo">>, Word(<<Lit("srv")>>, FALSE, <<"srv">>), << >>, << >>, << >>),
     LocalSpec(NoName, Word(<<Lit("npx")>>, FALSE, <<"npx">>),
               <<Word(<<Lit("-y")>>, TRUE, NoName),
                 Word(<<Lit("@scope/foo")>>, FALSE, <<"foo">>),
                 Word(<<Lit("--key="), Ph("B")>>, TRUE, NoName)>>,
               << <<Ph("A")>> >>, << >>),
     LocalSpec(<<"foo", 2>>, Word(<<Ph("A"), Lit("/bin/srv")>>, FALSE, <<"srv">>),
               << >>, << >>, << >>),
     LocalSpec(NoName, Word(<<Lit("foo_2")>>, FALSE, <<"foo", 2>>),
               <<Word(<<Lit("./run.py")>>, TRUE, NoName)>>, << >>, << >>),
     LocalSpec(ReporterName, Word(<<Lit("srv")>>, FALSE, <<"srv">>), << >>, << >>,
               <<Ph("WORKSPACE_ROOT"), Lit("/sub")>>),
     RemoteSpec(NoName, <<"mcp", "foo", "com">>, <<Lit("https://mcp.foo.com/"), Ph("A")>>,
                << <<Lit("Bearer "), Ph("B")>> >>),
     OtherSpec}

\* lines 806-809: os.environ, with WORKSPACE_ROOT bound to the argument if given
env_map ==
    IF cfg_workspace_root # None
    THEN [os_environ EXCEPT !["WORKSPACE_ROOT"] = cfg_workspace_root]
    ELSE os_environ

\* _resolve_env_str, lines 925-939: every bound placeholder becomes its
\* value, an unbound one stays and clears ok
resolve_env_str(value, env) ==
    [resolved |-> [i \in DOMAIN value |->
                     IF value[i].ph /\ env[value[i].s] # None
                     THEN Lit(env[value[i].s]) ELSE value[i]],
     ok |-> \A i \in DOMAIN value : value[i].ph => env[value[i].s] # None]

\* the same over a list or over the values of a dict
resolve_env_all(values, env) ==
    [resolved |-> [i \in DOMAIN values |-> resolve_env_str(values[i], env).resolved],
     ok |-> \A i \in DOMAIN values : resolve_env_str(values[i], env).ok]

\* _resolve_env_dict that returns the entry whatever all_ok says
resolve_env_dict_KeepPartial(entry, env) ==
    [entry EXCEPT !.args = resolve_env_all(entry.args, env).resolved,
                  !.cwd = resolve_env_str(entry.cwd, env).resolved,
                  !.url = resolve_env_str(entry.url, env).resolved,
                  !.command = resolve_env_str(entry.command, env).resolved,
                  !.env = resolve_env_all(entry.env, env).resolved,
                  !.headers = resolve_env_all(entry.headers, env).resolved]

\* _resolve_env_dict, lines 941-979
resolve_env_dict(entry, env) ==
    LET all_ok == /\ resolve_env_all(entry.args, env).ok
                  /\ resolve_env_str(entry.cwd, env).ok
                  /\ resolve_env_str(entry.url, env).ok
                  /\ resolve_env_str(entry.command, env).ok
                  /\ resolve_env_all(entry.env, env).ok
                  /\ resolve_env_all(entry.headers, env).ok
    IN  IF all_ok
        THEN [entry EXCEPT !.args = resolve_env_all(entry.args, env).resolved,
                           !.cwd = resolve_env_str(entry.cwd, env).resolved,
                           !.url = resolve_env_str(entry.url, env).resolved,
                           !.command = resolve_env_str(entry.command, env).resolved,
                           !.env = resolve_env_all(entry.env, env).resolved,
                           !.headers = resolve_env_all(entry.headers, env).resolved]
        ELSE NoEntry

\* _infer_mcp_server_name, lines 902-921: the first argument not passed over,
\* else the command
infer_mcp_server_name(command, args) ==
    LET cands == {i \in DOMAIN args : ~args[i].skip}
    IN  IF cands # {}
        THEN args[CHOOSE i \in cands : \A j \in cands : i <= j].stem
        ELSE command.stem

\* lines 822-831: the stem of the host name
remote_server_name(parts) ==
    IF Len(parts) > 2 /\ parts[1] = "mcp" THEN <<parts[2]>>
    ELSE IF parts # << >> THEN <<parts[1]>> ELSE <<"mcp-remote">>

\* lines 820-821, 860-864
base_name_of(tc) ==
    IF tc.prefix # NoName THEN tc.prefix
    ELSE IF tc.type = "mcp_remote" THEN remote_server_name(tc.host)
    ELSE infer_mcp_server_name(tc.command, tc.args)

BaseNames == {base_name_of(tc) : tc \in {t \in ToolingSpecs : t.type # "function"}}

Names(srv) == {p.name : p \in srv}
Lookup(srv, name) == (CHOOSE p \in srv : p.name = name).entry
\* servers[name] = entry
Put(srv, name, entry) == {p \in srv : p.name # name} \cup {[name |-> name, entry |-> entry]}

\* f"{base_name}-{counter}"
Suffixed(base, counter) == IF counter > 1 THEN Append(base, counter) ELSE base

RECURSIVE probe(_, _, _)
\* lines 838-841, 871-874: while server_name in servers: counter += 1
probe(base, counter, srv) ==
    IF Suffixed(base, counter) \in Names(srv) THEN probe(base, counter + 1, srv)
    ELSE counter

\* the counter after lines 833-836 alone, without the probe of the dict
pick_counter_NoProbe(base, seen, srv) == seen[base] + 1

\* lines 833-841, 866-874: the counter the name is built from
pick_counter(base, seen, srv) == probe(base, seen[base] + 1, srv)

\* lines 843-848, 876-883: the entry built from the spec
entry_of(tc) ==
    IF tc.type = "mcp_remote"
    THEN Entry("http", << >>, << >>, << >>, << >>, tc.server, tc.headers)
    ELSE Entry("local", tc.command.text, [i \in DOMAIN tc.args |-> tc.args[i].text],
               tc.env, tc.cwd, << >>, << >>)

\* lines 786-803: servers = {} and the built-in reporter
InjectReporter ==
    /\ cfg_pc = "start"
    /\ servers' = IF reporter THEN Put({}, ReporterName, ReporterEntry) ELSE {}
    /\ cfg_pc' = "loop"
    /\ UNCHANGED <<tooling, os_environ, cfg_workspace_root, reporter, cfg_i,
                   seen_counter, emitted_as, cfg_out>>
    /\ UNCHANGED notCfgVars

\* lines 812-888: one pass of `for tc in tooling_configs`
ToolingStep ==
    /\ cfg_pc = "loop"
    /\ cfg_i <= Len(tooling)
    /\ LET tc == tooling[cfg_i]
           base == base_name_of(tc)
           counter == pick_counter(base, seen_counter, servers)
           resolved == resolve_env_dict(entry_of(tc), env_map)
       IN  IF tc.type \notin {"mcp_local", "mcp_remote"}
           THEN /\ emitted_as' = Append(emitted_as, NoName)
                /\ UNCHANGED <<servers, seen_counter>>
           ELSE /\ seen_counter' = [seen_counter EXCEPT ![base] = counter]
                /\ IF resolved = NoEntry
                   THEN /\ emitted_as' = Append(emitted_as, NoName)
                        /\ UNCHANGED servers
                   ELSE /\ servers' = Put(servers, Suffixed(base, counter), resolved)
                        /\ emitted_as' = Append(emitted_as, Suffixed(base, counter))
    /\ cfg_i' = cfg_i + 1
    /\ UNCHANGED <<tooling, os_environ, cfg_workspace_root, reporter, cfg_pc, cfg_out>>
    /\ UNCHANGED notCfgVars

\* _build_mcp_config_dict of the three providers
build_mcp_config_dict(srv) == [mcpServers |-> srv, written |-> TRUE]

\* lines 890-898: nothing when no server is left, else the temp file
WriteConfig ==
    /\ cfg_pc = "loop"
    /\ cfg_i > Len(tooling)
    /\ cfg_out' = IF servers = {} THEN NoConfig ELSE build_mcp_config_dict(servers)
    /\ cfg_pc' = "done"
    /\ UNCHANGED <<tooling, os_environ, cfg_workspace_root, reporter, cfg_i, servers,
                   seen_counter, emitted_as>>
    /\ UNCHANGED notCfgVars

CfgNext == InjectReporter \/ ToolingStep \/ WriteConfig

\* ------------------------------------------------------------------------
\* The workspace diff: _diff_workspace (lines 1054-1068) on two snapshots
\* ------------------------------------------------------------------------
Infos == {Info(s, m) : s \in {0, 5}, m \in {1, 2}}
Snapshots == [DiffPaths -> Infos \cup {NoInfo}]

\* the keys of a snapshot, and the orders a dict can hold them in
Keys(snap) == {p \in DiffPaths : snap[p] # NoInfo}
Orders(S) == {o \in [1..Cardinality(S) -> S] : \A i, j \in DOMAIN o : i # j => o[i] # o[j]}

Change(path, change, size) == [path |-> path, change |-> change, size |-> size]

\* the comparison on the size alone
differs_SizeOnly(a, b) == a.size # b.size

\* line 1063: before[path] != (size, mtime)
differs(a, b) == a # b

RECURSIVE after_loop(_, _, _)
\* lines 1060-1064: created and modified, in the order of `after`
after_loop(order, bef, aft) ==
    IF order = << >> THEN << >>
    ELSE LET path == Head(order)
             hit == IF bef[path] = NoInfo
                    THEN <<Change(path, "created", aft[path].size)>>
                    ELSE IF differs(bef[path], aft[path])
                    THEN <<Change(path, "modified", aft[path].size)>>
                    ELSE << >>
         IN  hit \o after_loop(Tail(order), bef, aft)

RECURSIVE before_loop(_, _, _)
\* lines 1065-1067: deleted, in the order of `before`
before_loop(order, bef, aft) ==
    IF order = << >> THEN << >>
    ELSE LET path == Head(order)
             hit == IF aft[path] = NoInfo THEN <<Change(path, "deleted", 0)>> ELSE << >>
         IN  hit \o before_loop(Tail(order), bef, aft)

\* _diff_workspace(before, after), the dicts iterated in insertion order
DiffWorkspace ==
    /\ diff_pc = "call"
    /\ \E oa \in Orders(Keys(after)), ob \in Orders(Keys(before)) :
          changes' = after_loop(oa, before, after) \o before_loop(ob, before, after)
    /\ diff_pc' = "done"
    /\ UNCHANGED <<before, after>>
    /\ UNCHANGED notDiffVars

DiffNext == DiffWorkspace

\* ------------------------------------------------------------------------
\* The settings-file variant: GeminiCliProvider._create_mcp_config and
\* _cleanup_mcp_config (gemini_cli_provider.py lines 201-318) around the body
\* of call_model (cli_provider_base.py lines 233-376)
\* ------------------------------------------------------------------------
\* what the I/O of _create_mcp_config can fail on: nothing, mkdir, or the
\* write of the merged settings
Faults == {"none", "mkdir", "write"}

\* lines 258-262: json.load of the existing file, {} when it is not JSON;
\* lines 264-266: .get and .update raise AttributeError on a value that is
\* no object
MergeRaises(bytes) == bytes \in {"scalar", "bad_servers"}

\* the state after _create_mcp_config under the fault f
create_mcp_config(f) ==
    LET untouched == [dir |-> gemini_dir, settings |-> settings_json,
                      backup |-> backup_file, attr |-> gemini_settings_backup,
                      path |-> None, made |-> FALSE]
        made == gemini_dir = "absent"
        dir == IF made THEN "empty" ELSE gemini_dir
    IN  IF ~temp_path THEN untouched                         \* lines 233-234
        ELSE IF f = "mkdir" THEN untouched                   \* line 248 raises
        ELSE IF settings_json # NoBytes
        THEN \* lines 252-255: copy2 to the backup, the attribute is set
             IF MergeRaises(settings_json)
             THEN [dir |-> dir, settings |-> settings_json, backup |-> settings_json,
                   attr |-> "backup", path |-> None, made |-> made]
             ELSE IF f = "write"
             THEN [dir |-> dir, settings |-> "truncated", backup |-> settings_json,
                   attr |-> "backup", path |-> None, made |-> made]
             ELSE [dir |-> dir, settings |-> "merged", backup |-> settings_json,
                   attr |-> "backup", path |-> "settings", made |-> made]
        ELSE \* lines 268-270
             IF f = "write"
             THEN [dir |-> dir, settings |-> "truncated", backup |-> backup_file,
                   attr |-> None, path |-> None, made |-> made]
             ELSE [dir |-> dir, settings |-> "merged", backup |-> backup_file,
                   attr |-> None, path |-> "settings", made |-> made]

\* lines 298-318: the backup is moved back if the attribute names one that
\* exists; else the settings file is removed, and the directory if empty
restore_settings(path) ==
    IF gemini_settings_backup # None /\ backup_file # NoBytes
    THEN [dir |-> gemini_dir, settings |-> backup_file, backup |-> NoBytes, attr |-> None]
    ELSE IF settings_json # NoBytes
    THEN [dir |-> IF gemini_dir = "empty" /\ backup_file = NoBytes
                  THEN "absent" ELSE gemini_dir,
          settings |-> NoBytes, backup |-> backup_file, attr |-> None]
    ELSE [dir |-> gemini_dir, settings |-> settings_json, backup |-> backup_file,
          attr |-> None]

\* the state after _cleanup_mcp_config(path), lines 293-318
gemini_cleanup_mcp_config(path) ==
    IF path = None
    THEN [dir |-> gemini_dir, settings |-> settings_json, backup |-> backup_file,
          attr |-> gemini_settings_backup]                   \* lines 295-296
    ELSE restore_settings(path)

\* call_model line 233: self._create_mcp_config(...)
GemCreate ==
    /\ gem_pc = "create"
    /\ \E f \in Faults :
          LET r == create_mcp_config(f)
          IN  /\ gemini_dir' = r.dir
              /\ settings_json' = r.settings
              /\ backup_file' = r.backup
              /\ gemini_settings_backup' = r.attr
              /\ gem_config_path' = r.path
              /\ dir_created' = r.made
    /\ gem_pc' = "prepare"
    /\ UNCHANGED <<temp_path, prior>>
    /\ UNCHANGED notGemVars

\* call_model lines 238-261: the prompt, the command, mkdir and the snapshot
GemPrepare ==
    /\ gem_pc = "prepare"
    /\ gem_pc' = "try"
    /\ UNCHANGED <<gemini_dir, settings_json, backup_file, gemini_settings_backup,
                   temp_path, gem_config_path, prior, dir_created>>
    /\ UNCHANGED notGemVars

\* the same lines raise (for instance _snapshot_workspace on a tree it cannot
\* read): the exception leaves call_model ahead of the try of line 263
GemPrepareRaises ==
    /\ gem_pc = "prepare"
    /\ gem_pc' = "raised"
    /\ UNCHANGED <<gemini_dir, settings_json, backup_file, gemini_settings_backup,
                   temp_path, gem_config_path, prior, dir_created>>
    /\ UNCHANGED notGemVars

\* call_model lines 263-374: the body of the try returns or raises
GemTryBody ==
    /\ gem_pc = "try"
    /\ gem_pc' = "finally"
    /\ UNCHANGED <<gemini_dir, settings_json, backup_file, gemini_settings_backup,
                   temp_path, gem_config_path, prior, dir_created>>
    /\ UNCHANGED notGemVars

\* call_model lines 375-376: finally: self._cleanup_mcp_config(mcp_config_path)
GemCleanup ==
    /\ gem_pc = "finally"
    /\ LET r == gemini_cleanup_mcp_config(gem_config_path)
       IN  /\ gemini_dir' = r.dir
           /\ settings_json' = r.settings
           /\ backup_file' = r.backup
           /\ gemini_settings_backup' = r.attr
    /\ gem_pc' = "done"
    /\ UNCHANGED <<temp_path, gem_config_path, prior, dir_created>>
    /\ UNCHANGED notGemVars

GemNext == GemCreate \/ GemPrepare \/ GemPrepareRaises \/ GemTryBody \/ GemCleanup

\* ------------------------------------------------------------------------
\* LoopCounterNodeExecutor (runtime/node/executor/loop_counter_executor.py)
\* ------------------------------------------------------------------------
\* the largest max_iterations configured, and how many calls are followed
MaxIterations == 3
MaxCalls == 7

\* line 13
LOOP_EXIT_MARKER == "LOOP_EXIT"

\* LoopCounterConfig: max_iterations, reset_on_emit, message
LoopCounterConfig(max_iterations, reset_on_emit, message) ==
    [max_iterations |-> max_iterations, reset_on_emit |-> reset_on_emit,
     message |-> message]
LoopCounterConfigs ==
    {LoopCounterConfig(m, r, msg) :
        m \in 1..MaxIterations, r \in BOOLEAN, msg \in {None, "", "stop"}}

UserMessage(text) == Message("user", <<text>>, NoMetadata)
\* the inputs a call is made with
LoopInputs == {<< >>, <<UserMessage("m1")>>, <<UserMessage("m1"), UserMessage("m2")>>}

\* line 37: state.setdefault(node.id, {"count": 0})
setdefault(state, key) ==
    IF key \in DOMAIN state THEN state ELSE state @@ (key :> 0)

\* the stored count of a node, 0 for a node never executed
stored_count(state, key) == setdefault(state, key)[key]

\* a guard that still passes the inputs through on the call that reaches the limit
pass_through_Inclusive(count, max_iterations) == count <= max_iterations

\* line 41
pass_through(count, max_iterations) == count < max_iterations

\* a counter that is never reset
after_emit_NoReset(count, reset_on_emit) == count

\* lines 49-50
after_emit(count, reset_on_emit) == IF reset_on_emit THEN 0 ELSE count

\* line 46: list(inputs) if inputs else []
as_list(inputs) == IF inputs # << >> THEN inputs ELSE << >>

\* line 52: config.message or f"Loop limit reached ({max_iterations})"
raw_message(config) ==
    IF config.message \in {None, ""}
    THEN <<"Loop limit reached (", config.max_iterations, ")">>
    ELSE <<config.message>>

\* lines 53-71
exit_message(config, count) ==
    Message("assistant", <<LOOP_EXIT_MARKER, ": ">> \o raw_message(config),
            [count |-> count, max |-> config.max_iterations,
             reset_on_emit |-> config.reset_on_emit])

\* execute (lines 31-71) called for node n with the given inputs
ExecuteOn(n, inputs) ==
    /\ lc_calls[n] < MaxCalls
    /\ lc_calls' = [lc_calls EXCEPT ![n] = @ + 1]
    /\ LET config == loop_cfg[n] IN
       IF config = NoLoopCounterConfig
       THEN /\ lc_out' = [node |-> n, inputs |-> inputs, messages |-> << >>,
                          raised |-> TRUE]
            /\ UNCHANGED global_state
       ELSE LET state == setdefault(global_state, n)
                count == state[n] + 1
            IN  IF pass_through(count, config.max_iterations)
                THEN /\ global_state' = [state EXCEPT ![n] = count]
                     /\ lc_out' = [node |-> n, inputs |-> inputs,
                                   messages |-> as_list(inputs), raised |-> FALSE]
                ELSE /\ global_state' =
                            [state EXCEPT ![n] = after_emit(count, config.reset_on_emit)]
                     /\ lc_out' = [node |-> n, inputs |-> inputs,
                                   messages |-> <<exit_message(config, count)>>,
                                   raised |-> FALSE]
    /\ UNCHANGED loop_cfg
    /\ UNCHANGED notLoopVars

Execute == \E n \in LoopNodes, inputs \in LoopInputs : ExecuteOn(n, inputs)

LoopNext == Execute

\* ------------------------------------------------------------------------
\* Specifications
\* ------------------------------------------------------------------------
\* the supervisor's variables while only call_model is followed
SupIdle ==
    /\ variant = "ndjson"
    /\ timeout = CallerTimeout
    /\ now = 0
    /\ timer = "cancelled"
    /\ idle_timer = "cancelled"
    /\ idle_deadline = 0
    /\ timed_out = FALSE
    /\ stalled = FALSE
    /\ process = "exited"
    /\ helper = "none"
    /\ stdout_closed = FALSE
    /\ pipe = << >>
    /\ written = 0
    /\ rpc = "none"
    /\ accumulated_text = << >>
    /\ session_id = None
    /\ result_data = NoResult
    /\ pending_tool = NoTool
    /\ tool_start_time = NoTime
    /\ emitted = << >>
    /\ kills = << >>
    /\ response = NoRawResponse
    /\ last_emit = 0
    /\ cadence_ok = TRUE
    /\ fired = << >>
    /\ lines = {}
    /\ tool_open = NoTime
    /\ alt_tool = NoTrack

\* what the supervisor itself does, as opposed to the child
SupervisorStep ==
    \/ Tick \/ OverallTimerFires \/ IdleTimerFires
    \/ ReadLine \/ ReadLinePlain \/ LoopEnd \/ CancelTimers \/ Reap

RegInit ==
    /\ cls_sessions = [c \in Classes |-> EmptyMap]
    /\ ws_files \in [Providers -> FileContents]
    /\ reg_raised = FALSE
    /\ round_trip = NoTrip
    /\ cleared = NothingCleared
    /\ CfgIdle
    /\ DiffIdle
    /\ GemIdle
    /\ LoopIdle
    /\ CallIdle
    /\ SupIdle
    /\ stream_callback = FALSE
    /\ idle_timeout = CallerIdleTimeout

RECURSIVE ToolingLists(_)
\* the lists of at most n tooling specs
ToolingLists(n) ==
    IF n = 0 THEN {<< >>}
    ELSE ToolingLists(n - 1)
         \cup {Append(l, t) : l \in {x \in ToolingLists(n - 1) : Len(x) = n - 1},
                              t \in ToolingSpecs}

CfgInit ==
    /\ tooling \in ToolingLists(MaxTooling)
    /\ os_environ \in [EnvVars -> {None, "v"}]
    /\ cfg_workspace_root \in {None, "ws"}
    /\ reporter \in BOOLEAN
    /\ cfg_pc = "start"
    /\ cfg_i = 1
    /\ servers = {}
    /\ seen_counter = [b \in BaseNames |-> 0]
    /\ emitted_as = << >>
    /\ cfg_out = NoConfig
    /\ RegIdle
    /\ DiffIdle
    /\ GemIdle
    /\ LoopIdle
    /\ CallIdle
    /\ SupIdle
    /\ stream_callback = FALSE
    /\ idle_timeout = CallerIdleTimeout

DiffInit ==
    /\ before \in Snapshots
    /\ after \in Snapshots
    /\ changes = << >>
    /\ diff_pc = "call"
    /\ RegIdle
    /\ CfgIdle
    /\ GemIdle
    /\ LoopIdle
    /\ CallIdle
    /\ SupIdle
    /\ stream_callback = FALSE
    /\ idle_timeout = CallerIdleTimeout

GemInit ==
    /\ gemini_dir \in {"absent", "empty", "other"}
    /\ settings_json \in (IF gemini_dir = "absent" THEN {NoBytes}
                          ELSE PriorBytes \cup {NoBytes})
    /\ backup_file = NoBytes
    /\ gemini_settings_backup = None
    /\ temp_path \in BOOLEAN
    /\ gem_config_path = None
    /\ gem_pc = "create"
    /\ prior = [dir |-> gemini_dir, settings |-> settings_json]
    /\ dir_created = FALSE
    /\ RegIdle
    /\ CfgIdle
    /\ DiffIdle
    /\ LoopIdle
    /\ CallIdle
    /\ SupIdle
    /\ stream_callback = FALSE
    /\ idle_timeout = CallerIdleTimeout

LoopInit ==
    /\ loop_cfg \in [LoopNodes -> LoopCounterConfigs \cup {NoLoopCounterConfig}]
    /\ global_state = << >>
    /\ lc_out = NoCall
    /\ lc_calls = [n \in LoopNodes |-> 0]
    /\ RegIdle
    /\ CfgIdle
    /\ DiffIdle
    /\ GemIdle
    /\ CallIdle
    /\ SupIdle
    /\ stream_callback = FALSE
    /\ idle_timeout = CallerIdleTimeout

\* a supervised run of a child that uses two tools
ToolInit ==
    /\ variant \in {"ndjson", "plain"}
    /\ \E b \in RunBudgets : timeout = b[1] /\ idle_timeout = b[2]
    /\ stream_callback \in BOOLEAN
    /\ helper \in {"none", "running"}
    /\ now = 0
    /\ timer = "armed"
    /\ idle_timer = "armed"
    /\ idle_deadline = idle_timeout
    /\ timed_out = FALSE
    /\ stalled = FALSE
    /\ process = "running"
    /\ stdout_closed = FALSE
    /\ pipe = << >>
    /\ written = 0
    /\ rpc = "loop"
    /\ accumulated_text = << >>
    /\ session_id = None
    /\ result_data = NoResult
    /\ pending_tool = NoTool
    /\ tool_start_time = NoTime
    /\ emitted = << >>
    /\ kills = << >>
    /\ response = NoRawResponse
    /\ last_emit = 0
    /\ cadence_ok = TRUE
    /\ fired = << >>
    /\ lines = ToolLines
    /\ tool_open = NoTime
    /\ alt_tool = NoTrack
    /\ CallIdle
    /\ UtilIdle

CallInit ==
    /\ sessions = [n \in NodeIds |-> None]
    /\ sessions_file = AbsentFile
    /\ pc = "idle"
    /\ config_file = FALSE
    /\ CallLocalsInit
    /\ SupIdle
    /\ known_good = {}
    /\ UtilIdle

\* call_model over supervisor runs that return any of their possible responses
CallSpec == CallInit /\ [][CallNext]_vars

\* one supervised run of a child, over the clock
SupSpec == SupInit /\ [][SupNext]_vars

\* one timed run whose child works with two tools
ToolSpec == ToolInit /\ [][SupNext]_vars

\* the registry classmethods called in any order on the three provider
\* classes, over a workspace holding any sessions files
RegSpec == RegInit /\ [][RegNext]_vars

\* _create_mcp_config over any list of at most MaxTooling tooling specs and
\* any environment
CfgSpec == CfgInit /\ [][CfgNext]_vars

\* _diff_workspace on any two snapshots
DiffSpec == DiffInit /\ [][DiffNext]_vars

\* one call_model of the settings-file variant on any workspace
GemSpec == GemInit /\ [][GemNext]_vars

\* any sequence of execute calls on two loop-counter nodes of one graph
LoopSpec == LoopInit /\ [][LoopNext]_vars

\* the same, where the supervisor's threads and the clock keep running; the
\* child is under no obligation to write, close or exit
FairSupSpec == SupSpec /\ WF_vars(SupervisorStep)

\* ------------------------------------------------------------------------
\* Claims about the supervisors (checked under SupSpec and FairSupSpec)
\* ------------------------------------------------------------------------
Returned == rpc = "done"

\* C1: a child of the NDJSON supervisor, with no descendant on its pipe, that
\* writes a meaningful line within every idle_timeout window (idle_timeout <
\* timeout) and exits by itself before the overall deadline never gets the
\* response {error: "stall"}, whatever kinds of events it writes.
C1_NoStallUnderCadence ==
    (/\ variant = "ndjson" /\ helper = "none"
     /\ Returned
     /\ cadence_ok /\ idle_timeout < timeout
     /\ process = "exited" /\ now < timeout)
    => response.error # STALL

C3_EventuallyReturns == <>Returned

\* C4: every kill a supervisor delivers goes to the child's process group.
C4_KillsReachGroup == \A i \in 1..Len(kills) : kills[i] = "group"

\* ------------------------------------------------------------------------
\* Claims about call_model (checked under CallSpec)
\* ------------------------------------------------------------------------
Finished == pc \in {"returned", "raised"}

StallRuns == {i \in DOMAIN invocations : invocations[i].prompt = "stall"}
CompletionRuns == {i \in DOMAIN invocations : invocations[i].prompt = "completion"}
FreshRetries == {i \in DOMAIN invocations :
                    i > 1 /\ invocations[i].builder = "command"}

\* the identifying part of an invocation: builder, session and prompt
Shape(inv) == <<inv.builder, inv.session, inv.prompt>>

\* the fields of a response the supervisor produced
Core(resp) == <<resp.error, resp.session_id, resp.result_len, resp.returncode>>

\* C5: after call_model ends, by a return or by an exception raised after the
\* config file was created, the config file of that call no longer exists.
C5_ConfigFileGone == Finished => ~config_file

\* C6: when the first run returned stall and a session id is available (the
\* run's, otherwise the registry entry of node_id), call_model emits
\* stall_detected{session_id, idle_timeout} to the callback, if there is one,
\* and then invokes the supervisor with a resume command for that session id
\* and the stall prompt; it makes that invocation once per call.
C6_StallResume ==
    /\ [][(/\ pc = "classify"
           /\ raw_response.error = STALL
           /\ \/ raw_response.session_id # None
              \/ node_id # None /\ sessions[node_id] # None)
          => LET s == IF raw_response.session_id # None
                      THEN raw_response.session_id ELSE sessions[node_id]
             IN /\ Len(invocations') = Len(invocations) + 1
                /\ Shape(invocations'[Len(invocations')]) = <<"resume", s, "stall">>
                /\ SubSeq(invocations', 1, Len(invocations)) = invocations
                /\ IF stream_callback
                   THEN cb_events' = Append(cb_events,
                           [kind |-> "stall_detected", session_id |-> s,
                            idle_timeout |-> idle_timeout,
                            before_invocation |-> Len(invocations')])
                   ELSE cb_events' = cb_events]_vars
    /\ [](Cardinality(StallRuns) <= 1)

C6_Witness ==
    /\ pc = "recovered"
    /\ stream_callback
    /\ Len(invocations) = 2
    /\ invocations[2].prompt = "stall"
    /\ invocations[2].session = "s2"
    /\ Len(cb_events) = 1

\* C7: if the stall-recovery run returns timeout or stall, call_model clears
\* node_id's registry entry, invokes the supervisor no further and returns
\* the message "[Error: Agent stalled and recovery failed]".
C7_RecoveryFailed ==
    [][(pc = "recovered" /\ raw_response.error \in {TIMEOUT, STALL})
       => /\ pc' = "returned"
          /\ content' = "[Error: Agent stalled and recovery failed]"
          /\ invocations' = invocations
          /\ node_id # None => sessions'[node_id] = None]_vars

C7_Witness ==
    /\ pc = "returned"
    /\ content = "[Error: Agent stalled and recovery failed]"
    /\ is_continuation
    /\ Len(invocations) = 2

\* C8: when the first run returns timeout, call_model returns
\* "[Error: <binary> CLI timed out]" without another supervisor invocation;
\* the registry then holds no binding for node_id on a fresh call and the
\* unchanged previous binding on a continuation.
C8_TimeoutNoRetry ==
    [][(pc = "classify" /\ raw_response.error = TIMEOUT)
       => /\ pc' = "returned"
          /\ content' = "[Error: <binary> CLI timed out]"
          /\ invocations' = invocations
          /\ node_id # None =>
                sessions'[node_id] = IF is_continuation THEN existing_session ELSE None
          /\ is_continuation => sessions' = sessions]_vars

C8_Witness ==
    /\ pc = "returned"
    /\ content = "[Error: <binary> CLI timed out]"
    /\ is_continuation
    /\ sessions[node_id] = existing_session
    /\ Len(invocations) = 1

\* C9: when a continuation's run returns an error text containing "session"
\* or "resume" (case-insensitive), call_model clears node_id's entry and
\* re-invokes the supervisor once with a fresh command carrying no session
\* id; that run's response is the one returned.  A fresh call never retries.
C9_RetryFresh ==
    /\ [][(/\ pc = "tracked"
           /\ is_continuation
           /\ \/ Contains(SESSION, Lower(raw_response.error))
              \/ Contains(RESUME, Lower(raw_response.error)))
          => /\ sessions'[node_id] = None
             /\ Len(invocations') = Len(invocations) + 1
             /\ Shape(invocations'[Len(invocations')]) =
                   <<"command", None, "conversation">>
             /\ SubSeq(invocations', 1, Len(invocations)) = invocations]_vars
    /\ [][(FreshRetries # {} /\ ~Finished)
          => /\ invocations' = invocations
             /\ Core(raw_response') = Core(raw_response)]_vars
    /\ [](Cardinality(FreshRetries) <= 1)
    /\ [](~is_continuation => FreshRetries = {})
    /\ [](FreshRetries # {} => Len(invocations) \in FreshRetries)

C9_Witness ==
    /\ pc = "returned"
    /\ FreshRetries = {3}
    /\ raw_response.error = NoError
    /\ raw_response.session_id = "s2"
    /\ sessions[node_id] = "s2"

\* C10: call_model invokes the completion resume exactly once if the call is
\* not a continuation, the response carries no error, a session id is known
\* and len(result) < 1000, and never otherwise.
C10_CompletionResume ==
    /\ [][pc = "validate"
          => IF /\ ~is_continuation
                /\ raw_response.error = NoError
                /\ \/ raw_response.session_id # None
                   \/ node_id # None /\ sessions[node_id] # None
                /\ raw_response.result_len < 1000
             THEN /\ Len(invocations') = Len(invocations) + 1
                  /\ Shape(invocations'[Len(invocations')]) =
                        <<"resume",
                          IF raw_response.session_id # None
                          THEN raw_response.session_id ELSE sessions[node_id],
                          "completion">>
                  /\ pc' = "returned"
             ELSE invocations' = invocations]_vars
    /\ [][pc # "validate" => CompletionRuns' \subseteq CompletionRuns]_vars
    /\ [](Cardinality(CompletionRuns) <= 1)

C10_Witness ==
    /\ pc = "returned"
    /\ CompletionRuns # {}
    /\ raw_response.error = NoError
    /\ raw_response.result_len = 999

BracketedErrors ==
    {"[Error: <binary> CLI timed out]",
     "[Error: Agent stalled and recovery failed]",
     "[Error: Agent stalled, no session to resume]",
     "[Error: <binary> CLI timed out on retry]",
     "[<binary> Error]: <stderr>"}

\* C12: a returned raw response with error timeout or stall comes with a
\* message whose content is a bracketed error text.
C12_ErrorsAreBracketed ==
    (pc = "returned" /\ raw_response.error \in {TIMEOUT, STALL})
    => content \in BracketedErrors

\* C13: when call_model has returned, the node's registry entry is absent or
\* a known-good id: one reported by a run that ended without timeout or stall.
C13_RegistryKnownGood ==
    (pc = "returned" /\ node_id # None)
    => (get_session(sessions, node_id) = None
        \/ get_session(sessions, node_id) \in known_good)

\* C14: a non-error raw response returned by call_model carries file_changes
\* when there is a workspace and _streamed when there is a callback.
C14_ResponseAnnotated ==
    (pc = "returned" /\ raw_response.error = NoError)
    => /\ (cwd # None => raw_response.file_changes)
       /\ (stream_callback => raw_response.streamed)

\* ------------------------------------------------------------------------
\* Further claims about the supervisors (checked under SupSpec)
\* ------------------------------------------------------------------------

\* C15: the supervisor captures the session id of every line it reads that
\* carries one, and a run that returns stall returns the captured id (None
\* when no line carried one): the last session id seen on the stream.
C15_StallKeepsLastSession ==
    /\ [][(rpc = "loop" /\ pipe # << >> /\ pipe' = Tail(pipe)
           /\ Head(pipe).session_id # None)
          => session_id' = Head(pipe).session_id]_vars
    /\ [](Returned /\ response.error = STALL => response.session_id = session_id)

\* C16: a supervisor that returns with both timed_out and stalled set returns
\* {error: "timeout"}.
C16_TimeoutPreferred ==
    (Returned /\ timed_out /\ stalled)
    => response = [NoRawResponse EXCEPT !.error = TIMEOUT]

\* both timers fired in one run of the NDJSON supervisor
C16_Witness ==
    /\ variant = "ndjson"
    /\ Returned /\ timed_out /\ stalled
    /\ response.error = TIMEOUT

Fired(t) == \E i \in DOMAIN fired : fired[i] = t

\* C17: when both the overall and the idle timer fired during one run of the
\* NDJSON supervisor, the response carries the classification of the timer
\* that fired first.
C17_FirstFiredWins ==
    (variant = "ndjson" /\ Returned /\ Fired("idle") /\ Fired("overall"))
    => response.error = (IF fired[1] = "idle" THEN STALL ELSE TIMEOUT)

\* the emissions of `kind` for tool id `id` among the first i
EmittedUpTo(i, kind, id) ==
    {j \in 1..i : emitted[j].kind = kind /\ emitted[j].tool.id = id}

\* C18: every tool_end passed to the callback is preceded by a tool_start of
\* its own for the same tool: in every prefix of the emissions a tool has at
\* most as many tool_end as tool_start.
C18_ToolEndAfterStart ==
    \A i \in DOMAIN emitted :
        emitted[i].kind = "tool_end"
        => Cardinality(EmittedUpTo(i, "tool_end", emitted[i].tool.id))
             <= Cardinality(EmittedUpTo(i, "tool_start", emitted[i].tool.id))

\* two consecutive tool_start events: the first tool's tool_end is synthesized
\* between the two tool_start emissions
C18_Witness ==
    /\ variant = "ndjson" /\ stream_callback
    /\ Len(emitted) >= 3
    /\ emitted[1].kind = "tool_start"
    /\ emitted[2].kind = "tool_end"
    /\ emitted[3].kind = "tool_start"

\* C19: once the NDJSON supervisor has recorded a result event, no step
\* changes the recorded event, the accumulator or the captured session id,
\* or passes anything to the callback.
C19_NothingAfterResult ==
    [][result_data # NoResult
         => /\ result_data' = result_data
            /\ accumulated_text' = accumulated_text
            /\ session_id' = session_id
            /\ emitted' = emitted]_vars

\* the response built from the recorded result event: its fields, the joined
\* accumulator for an empty result, the captured session id, the exit status
BuiltFromResult ==
    [error |-> result_data.error,
     session_id |-> session_id,
     result |-> IF result_data.result = "" THEN accumulated_text
                ELSE << <<result_data.result>> >>,
     returncode |-> process,
     type |-> "result"]

\* C20: a run of the NDJSON supervisor that processed a result event returns
\* the response built from that event.
C20_ResultIsReturned ==
    (variant = "ndjson" /\ Returned /\ result_data # NoResult)
    => response = BuiltFromResult

\* C21: every response the supervisor returns carries the _returncode key
\* (the child's exit status), whether the run ended in a clean exit, a non-zero
\* exit, a timeout or a stall.
C21_AlwaysReturncode ==
    Returned => response.returncode # None

\* C22: the result in every tool_end payload passed to the callback has at
\* most 200 characters, whatever the type and the length of the tool result
\* in the child's stream.
C22_ToolResultTruncated ==
    \A i \in DOMAIN emitted :
        (emitted[i].kind = "tool_end" /\ emitted[i].tool.has_result)
            => emitted[i].tool.result.len <= ToolResultLimit

\* ------------------------------------------------------------------------
\* Claims about the session registries (checked under RegSpec)
\* ------------------------------------------------------------------------
\* C23: for two distinct provider kinds P and Q and any node id n, a
\* set_session, clear_session or clear_all_sessions performed on P leaves
\* get_session(n) on Q unchanged, and so does any sequence of them.
C23_SessionIsolation ==
    [][\A P \in Providers :
         (SetSessionOn(P) \/ ClearSessionOn(P) \/ ClearAllSessionsOn(P))
            => \A Q \in Providers \ {P}, n \in NodeIds :
                  get_session(cls_sessions'[storage(Q)], n)
                     = get_session(cls_sessions[storage(Q)], n)]_vars

C23_Witness ==
    /\ get_session(cls_sessions[storage("ClaudeCodeProvider")], "n1") = None
    /\ get_session(cls_sessions[storage("GeminiCliProvider")], "n1") = "s1"
    /\ get_session(cls_sessions[storage("CopilotCliProvider")], "n1") = "s1"
    /\ round_trip = NoTrip
    /\ ws_files = [c \in Providers |-> AbsentFile]

\* C24: for any registry state R of a provider, the empty map included, and
\* whatever sessions file the workspace already holds,
\* save_sessions_to_workspace followed by load_sessions_from_workspace leaves
\* the provider's registry equal to R, also when the registry is cleared
\* between the two.
C24_SaveLoadRoundTrip ==
    round_trip.phase = "loaded"
        => cls_sessions[storage(round_trip.cls)] = round_trip.saved

\* C25: load_sessions_from_workspace on a workspace whose sessions file is
\* absent, is not valid JSON, or is valid JSON that is not an object mapping
\* node ids to session ids, raises nothing and leaves the registry unchanged.
C25_LoadTolerates ==
    [][\A P \in Providers :
         (LoadSessionsOn(P) /\ ws_files[P].kind # "object")
            => (cls_sessions' = cls_sessions /\ ~reg_raised')]_vars

\* ------------------------------------------------------------------------
\* Claims about the tool-server config builder (checked under CfgSpec)
\* ------------------------------------------------------------------------
IsMcp(tc) == tc.type \in {"mcp_local", "mcp_remote"}

\* the strings of a tooling spec that can hold placeholders
StringFields(tc) ==
    {tc.command.text, tc.cwd, tc.server}
    \cup {tc.args[i].text : i \in DOMAIN tc.args}
    \cup {tc.env[i] : i \in DOMAIN tc.env}
    \cup {tc.headers[i] : i \in DOMAIN tc.headers}

HasUnbound(tc) == \E v \in UNION {{str[i].s : i \in {j \in DOMAIN str : str[j].ph}} :
                                    str \in StringFields(tc)} : env_map[v] = None

\* a string with every placeholder replaced by the value bound to it
Subst(str) == [i \in DOMAIN str |-> IF str[i].ph THEN Lit(env_map[str[i].s]) ELSE str[i]]
SubstAll(strs) == [i \in DOMAIN strs |-> Subst(strs[i])]
Substituted(tc) ==
    IF tc.type = "mcp_remote"
    THEN Entry("http", << >>, << >>, << >>, << >>, Subst(tc.server), SubstAll(tc.headers))
    ELSE Entry("local", Subst(tc.command.text),
               [i \in DOMAIN tc.args |-> Subst(tc.args[i].text)],
               SubstAll(tc.env), Subst(tc.cwd), << >>, << >>)

\* C26: a tooling entry is in the emitted servers mapping if and only if
\* every $ENV{NAME} placeholder it references, in command, cwd, url, any
\* element of args and any value of env or headers, is bound in the
\* environment mapping; an emitted entry has every placeholder replaced by
\* its bound value, and an entry with an unbound placeholder is absent as a
\* whole.
C26_EnvResolution ==
    /\ \A i \in DOMAIN emitted_as :
          IsMcp(tooling[i]) =>
             IF HasUnbound(tooling[i])
             THEN emitted_as[i] = NoName
             ELSE /\ emitted_as[i] \in Names(servers)
                  /\ Lookup(servers, emitted_as[i]) = Substituted(tooling[i])
    /\ Cardinality(servers) =
          Cardinality({i \in DOMAIN emitted_as : IsMcp(tooling[i]) /\ ~HasUnbound(tooling[i])})
          + (IF reporter /\ cfg_pc # "start" THEN 1 ELSE 0)
    /\ cfg_out.written => cfg_out.mcpServers = servers

C26_Witness ==
    /\ cfg_out.written
    /\ \E i, j \in DOMAIN emitted_as :
          /\ emitted_as[i] # NoName
          /\ \E str \in StringFields(tooling[i]) : \E k \in DOMAIN str : str[k].ph
          /\ IsMcp(tooling[j]) /\ HasUnbound(tooling[j])
          /\ \E str \in StringFields(tooling[j]) :
                \E k \in DOMAIN str : str[k].ph /\ env_map[str[k].s] # None

\* C27: for every list of tooling specs, with any mix of prefixes, inferred
\* names, repeated names, names that already end in -2 or -3, dropped
\* entries and the built-in reporter, every spec that resolves is emitted
\* under a name of its own, distinct from all other emitted names: no
\* emitted entry is overwritten by a later one and the reporter entry is
\* never replaced.
C27_UniqueNames ==
    /\ \A i \in DOMAIN emitted_as :
          (IsMcp(tooling[i]) /\ resolve_env_dict(entry_of(tooling[i]), env_map) # NoEntry)
             => /\ emitted_as[i] \in Names(servers)
                /\ Lookup(servers, emitted_as[i])
                      = resolve_env_dict(entry_of(tooling[i]), env_map)
                /\ \A j \in DOMAIN emitted_as : j # i => emitted_as[j] # emitted_as[i]
    /\ (reporter /\ cfg_pc # "start")
          => /\ ReporterName \in Names(servers)
             /\ Lookup(servers, ReporterName) = ReporterEntry
             /\ \A i \in DOMAIN emitted_as : emitted_as[i] # ReporterName
    /\ cfg_out.written => Names(cfg_out.mcpServers) = Names(servers)

C27_Witness ==
    /\ cfg_out.written
    /\ reporter
    /\ Len(emitted_as) = 3
    /\ tooling[1].prefix = ReporterName /\ emitted_as[1] = <<"chatdev-reporter", 2>>
    /\ tooling[2].prefix = <<"foo", 2>> /\ emitted_as[2] = <<"foo", 2>>
    /\ tooling[3].prefix = NoName /\ emitted_as[3] = <<"foo", 2, 2>>

\* ------------------------------------------------------------------------
\* Claims about the workspace diff (checked under DiffSpec)
\* ------------------------------------------------------------------------
\* the changes two snapshots call for
ExpectedChanges ==
    {Change(p, "created", after[p].size) : p \in Keys(after) \ Keys(before)}
    \cup {Change(p, "modified", after[p].size) :
            p \in {q \in Keys(after) \cap Keys(before) :
                      before[q].size # after[q].size \/ before[q].mtime # after[q].mtime}}
    \cup {Change(p, "deleted", 0) : p \in Keys(before) \ Keys(after)}

\* C28: for any two snapshots, _diff_workspace returns exactly one change
\* per path that differs and none for an unchanged path: created for a path
\* only in after, modified for a path in both with a different (size, mtime),
\* deleted with size 0 for a path only in before; the set of changes depends
\* on the two snapshots only.
C28_DiffIsExact ==
    diff_pc = "done" =>
        /\ {changes[i] : i \in DOMAIN changes} = ExpectedChanges
        /\ Len(changes) = Cardinality(ExpectedChanges)
        /\ \A i, j \in DOMAIN changes : i # j => changes[i].path # changes[j].path

C28_Witness ==
    /\ diff_pc = "done"
    /\ Len(changes) = 2
    /\ \E i \in DOMAIN changes :
          /\ changes[i].change = "modified"
          /\ before[changes[i].path].size = after[changes[i].path].size
    /\ \E i \in DOMAIN changes : changes[i].change = "deleted" /\ changes[i].size = 0

\* ------------------------------------------------------------------------
\* Claims about the settings-file variant (checked under GemSpec)
\* ------------------------------------------------------------------------
\* C29: _create_mcp_config followed by _cleanup_mcp_config returns the
\* workspace to its prior state: a settings.json that existed has its prior
\* bytes again; otherwise settings.json is gone and a .gemini directory the
\* call created is removed; in both cases no backup file remains.
C29_SettingsRestored ==
    gem_pc = "done" =>
        /\ prior.settings # NoBytes => settings_json = prior.settings
        /\ prior.settings = NoBytes
              => (settings_json = NoBytes /\ (dir_created => gemini_dir = "absent"))
        /\ backup_file = NoBytes

\* C30: on every exit path of call_model, the one on which
\* _create_mcp_config fails after it backed up or rewrote settings.json and
\* returns no path included, the settings-file backup is removed and the
\* prior content of settings.json is back in place.
C30_BackupGoneOnEveryExit ==
    gem_pc \in {"done", "raised"} =>
        (backup_file = NoBytes /\ settings_json = prior.settings)


\* ------------------------------------------------------------------------
\* Further claims about the supervised run (checked under SupSpec)
\* ------------------------------------------------------------------------
\* C31: once a deadline timer has fired (timed_out or stalled is set and the
\* kill was delivered), no further line of the child is processed: no step
\* after it emits through the callback, appends to the accumulator or changes
\* the captured session id.
C31_NothingAfterKill ==
    [][(timed_out \/ stalled)
          => /\ emitted' = emitted
             /\ accumulated_text' = accumulated_text
             /\ session_id' = session_id]_vars

\* the line being read comes more than idle_timeout after a tool_start that
\* no tool_end, text or result has followed, and is not that tool's tool_end
ToolStillRunning ==
    /\ Head(pipe).type \notin {"garbage", "tool_end"}
    /\ tool_open # NoTime
    /\ now - tool_open > idle_timeout

\* C32: the per-tool-call rule marks the run stalled (and leaves the loop)
\* exactly when an event arrives more than idle_timeout after a tool_start
\* while that tool has not ended; an event that arrives after the tool ended
\* (by its tool_end, a following text or a result) never triggers the rule,
\* and the tool's own tool_end counts as the tool ending.
C32_ToolCallRule ==
    [][ReadLine => ((rpc' = "finally") <=> ToolStillRunning)]_vars

\* line 460-462 on the locals of the run with the other choice of callback
AltToolCallOverdue ==
    /\ alt_tool.tool_start_time # NoTime
    /\ alt_tool.pending_tool # NoTool
    /\ now - alt_tool.tool_start_time > idle_timeout

\* C34: for the same lines of the child read at the same times, a run with a
\* stream_callback and a run without one keep the same pending tool and
\* stopwatch and take the same per-tool-call stall decision on every line,
\* so that they return the same response.
C34_CallbackOnlyObserves ==
    [][(ReadLine /\ Head(pipe).type # "garbage")
          => /\ ToolCallOverdue <=> AltToolCallOverdue
             /\ alt_tool = [pending_tool |-> pending_tool,
                            tool_start_time |-> tool_start_time]]_vars

\* the read loop has ended at end of file, on the child's own exit and with
\* a result processed, and the timers are not yet cancelled
CompletedBeforeCancel ==
    /\ rpc = "finally"
    /\ result_data # NoResult
    /\ process = "exited"
    /\ kills = << >>

\* C35: once the reader has consumed the whole stream (a result was processed
\* and the loop ended on the child's own exit), no timer that fires between
\* the end of the loop and the timer cancellations sets timed_out or stalled:
\* the completed run is not turned into a timeout or stall response.
C35_CancelRaceIsSafe ==
    [][CompletedBeforeCancel => (timed_out' = timed_out /\ stalled' = stalled)]_vars

\* C39: a line that normalizes to a text event with empty text has no effect
\* on the run: reading it passes nothing to the callback, leaves the pending
\* tool and its stopwatch as they are, and does not change the accumulator.
C39_EmptyTextIsInert ==
    [][(ReadLine /\ Head(pipe) = TextEv(""))
          => /\ emitted' = emitted
             /\ pending_tool' = pending_tool
             /\ tool_start_time' = tool_start_time
             /\ accumulated_text' = accumulated_text]_vars

\* ------------------------------------------------------------------------
\* A claim about runs with two tools (checked under ToolSpec)
\* ------------------------------------------------------------------------
\* C38: once the tool_start of both tools was passed to the callback, the
\* result in a tool_end payload is the result of the tool_result event that
\* carries the payload's tool id: after the tool_start of t1 and of t2 and the
\* tool_result of t1, the result of t1 is not attached to the tool_end of t2.
C38_ResultMatchesTool ==
    \A i \in DOMAIN emitted :
        (/\ emitted[i].kind = "tool_end" /\ emitted[i].tool.has_result
         /\ \A id \in {"t1", "t2"} :
               \E j \in 1..(i - 1) :
                  emitted[j].kind = "tool_start" /\ emitted[j].tool.id = id)
            => emitted[i].tool.result = ResultOf(emitted[i].tool.id)

\* ------------------------------------------------------------------------
\* A further claim about call_model (checked under CallSpec)
\* ------------------------------------------------------------------------
\* C37: every supervisor invocation made within one call_model (the initial
\* run, the stall-recovery resume, the fresh retry after a rejected resume
\* and the completion resume) runs under the timeout and the idle_timeout the
\* caller passed to call_model.
C37_CallerBudgets ==
    \A i \in DOMAIN invocations :
        /\ invocations[i].timeout = CallerTimeout
        /\ invocations[i].idle_timeout = CallerIdleTimeout

\* ------------------------------------------------------------------------
\* A further claim about the session registries (checked under RegSpec)
\* ------------------------------------------------------------------------
\* C36: a binding removed by clear_session or clear_all_sessions and followed
\* by save_sessions_to_workspace does not come back: whatever is loaded
\* afterwards, the node has no session until the next set_session.
C36_ClearedStaysCleared ==
    \A P \in Providers, n \in NodeIds :
        cleared[P][n] = "saved" => get_session(cls_sessions[storage(P)], n) = None

\* ------------------------------------------------------------------------
\* Claims about the loop counter (checked under LoopSpec)
\* ------------------------------------------------------------------------
\* the last call returned the exhaustion message and nothing else
IsLoopExit(out) ==
    /\ Len(out.messages) = 1
    /\ out.messages[1].role = "assistant"
    /\ out.messages[1].content[1] = LOOP_EXIT_MARKER

\* C33: every execute call on a configured node takes the node's stored count
\* plus one as the new count; while the new count is below max_iterations the
\* call stores it and returns the input messages unchanged, and on the call
\* at which the new count reaches max_iterations it returns exactly one
\* assistant message whose content starts with "LOOP_EXIT", not the inputs.
C33_LoopCounterStep ==
    [][\A n \in LoopNodes, inputs \in LoopInputs :
         (ExecuteOn(n, inputs) /\ loop_cfg[n] # NoLoopCounterConfig) =>
            LET count == stored_count(global_state, n) + 1
                max == loop_cfg[n].max_iterations
            IN  /\ ~lc_out'.raised
                /\ count < max =>
                      /\ global_state'[n] = count
                      /\ lc_out'.messages = inputs
                /\ count = max =>
                      /\ IsLoopExit(lc_out')
                      /\ lc_out'.messages[1].metadata.count = count
                      /\ lc_out'.messages # inputs]_vars

C33_Witness ==
    /\ lc_out.node = "a"
    /\ loop_cfg["a"].max_iterations = 3
    /\ lc_calls["a"] = 3
    /\ lc_out.inputs = <<UserMessage("m1"), UserMessage("m2")>>
    /\ IsLoopExit(lc_out)
    /\ lc_out.messages[1].metadata.count = 3

\* what C40 says of one node after any number of calls
LoopCycle(n) ==
    LET N == loop_cfg[n].max_iterations
        last == lc_out.node = n
    IN  IF loop_cfg[n].reset_on_emit
        THEN /\ stored_count(global_state, n) \in 0..(N - 1)
             /\ last => (IsLoopExit(lc_out) <=> lc_calls[n] % N = 0)
        ELSE last => (IsLoopExit(lc_out) <=> lc_calls[n] >= N)

\* C40: for a node with max_iterations = N >= 1 and reset_on_emit set, the
\* LOOP_EXIT message is returned on exactly every N-th call of that node and
\* the stored count is within 0..N-1 between calls; with reset_on_emit unset,
\* exactly the calls from the N-th on return LOOP_EXIT; and a call on one node
\* leaves the count of every other node as it was.
C40_LoopCycle ==
    /\ [](\A n \in LoopNodes : loop_cfg[n] # NoLoopCounterConfig => LoopCycle(n))
    /\ [][\A n \in LoopNodes, inputs \in LoopInputs :
            ExecuteOn(n, inputs) =>
               \A m \in LoopNodes \ {n} :
                  stored_count(global_state', m) = stored_count(global_state, m)]_vars

C40_Witness ==
    /\ loop_cfg["a"].max_iterations = 2 /\ loop_cfg["a"].reset_on_emit
    /\ loop_cfg["b"].max_iterations = 3 /\ loop_cfg["b"].reset_on_emit
    /\ lc_calls["a"] = 4 /\ lc_calls["b"] = 2
    /\ lc_out.node = "a" /\ IsLoopExit(lc_out)
    /\ stored_count(global_state, "a") = 0
    /\ stored_count(global_state, "b") = 2

====
